---------------------------- MODULE Spec2Model ----------------------------
(***************************************************************************)
(* Hybrid forecast engine of ESR-Forecast: the protocol model              *)
(* (lib/model/protocol.ts), the fee-regime detector and execution-yield    *)
(* forecaster (lib/model/execution.ts) and the day-stepped simulator with  *)
(* its scenario comparison (lib/model/forecast.ts in its current form,     *)
(* src/unnamed/part_000).                                                  *)
(*                                                                         *)
(* NUMBERS.  The program computes with IEEE-754 doubles.  The model keeps  *)
(* every such value as an extended number: a record [k, v] that is either  *)
(* finite (k = "fin", v an integer in a fixed-point unit), an infinity     *)
(* (k = "inf", v = 1 or -1) or NaN (k = "nan").  The operators X...        *)
(* follow the IEEE/JavaScript rules for the non-finite cases (x/0, Inf-Inf,*)
(* 0*Inf, comparisons with NaN, Math.max/Math.min with NaN).  Finite       *)
(* results are truncated to the unit of the quantity:                      *)
(*   - ETH amounts, validator counts, queue lengths: unit 1;               *)
(*   - yields (ETH per validator per day), probabilities and dimensionless *)
(*     factors: unit 1/Scale (10^-6);                                      *)
(*   - APRs and percentage shares (both in percent): unit 1/PctScale       *)
(*     (10^-4 of a percent);                                               *)
(*   - timestamps: whole days.                                             *)
(* Products and quotients are computed exactly (MulDivMod) before the      *)
(* truncation, so no intermediate value overflows TLC's 32-bit integers.   *)
(*                                                                         *)
(* EVALUATION.  A value that is used more than once is bound to its name   *)
(* with Bind or Bind2 (the body applied to the one element of a singleton  *)
(* set), which evaluates it once; the source's local constants appear as   *)
(* the names so bound.                                                     *)
(***************************************************************************)
EXTENDS Integers, Sequences, FiniteSets, TLC

(***************************************************************************)
(* Bounds of the model                                                     *)
(***************************************************************************)
\* The longest horizon that the caller asks for, in months
MaxMonths == 2

\* The number of calls that the caller makes on one set of data
MaxCalls == 2

(***************************************************************************)
(* Evaluation once                                                         *)
(***************************************************************************)
\* F(e), with e evaluated once
Bind(e, F(_)) == CHOOSE r \in {F(x) : x \in {e}} : TRUE

\* F(e1, e2), with e1 and e2 evaluated once
Bind2(e1, e2, F(_, _)) == CHOOSE r \in {F(x, y) : x \in {e1}, y \in {e2}} : TRUE

\* The sequence s with all its elements evaluated
Eager(s) == s \o <<>>

(***************************************************************************)
(* Exact integer arithmetic on products that exceed 32 bits.  The          *)
(* arguments of these operators are names or literals.                     *)
(***************************************************************************)
MaxInt == 2^30 + (2^30 - 1)

Scale == 10^6

PctScale == 10^4

Abs(x) == IF x < 0 THEN 0 - x ELSE x

Sgn(x) == IF x < 0 THEN 0 - 1 ELSE IF x > 0 THEN 1 ELSE 0

\* The chunk base B (a power of two) for reducing modulo c: (2B - 1) * c fits
\* in 32 bits, for 0 < c <= 2^29.
ChunkBase(c) ==
    IF c <= 2^15 THEN 2^15
    ELSE IF c <= 2^20 THEN 2^10
    ELSE IF c <= 2^22 THEN 2^8
    ELSE IF c <= 2^26 THEN 2^4
    ELSE 2

\* One digit of the long multiplication: from h = (x * y') divided by c to
\* x * (y' * B + digit) divided by c.
MulModDigit(h, x, digit, c, B) ==
    [q |-> h.q * B + (h.r * B + x * digit) \div c, r |-> (h.r * B + x * digit) % c]

\* x * y = q * c + r with 0 <= r < c, for 0 <= x < c <= 2^29 and y >= 0: long
\* multiplication over the base-B digits of y, reducing modulo c at every digit.
RECURSIVE MulModStep(_, _, _, _)
MulModStep(x, y, c, B) ==
    IF y = 0 THEN [q |-> 0, r |-> 0]
    ELSE Bind2(MulModStep(x, y \div B, c, B), y % B,
               LAMBDA h, digit : MulModDigit(h, x, digit, c, B))

\* a * b = q * c + r with 0 <= r < c, for a, b >= 0 and 0 < c <= 2^29.
MulDivMod(a, b, c) ==
    IF a = 0 \/ b = 0 THEN [q |-> 0, r |-> 0]
    ELSE IF a <= MaxInt \div b THEN [q |-> (a * b) \div c, r |-> (a * b) % c]
    ELSE Bind2(a % c, b % c, LAMBDA ra, rb :
            Bind(IF ra <= rb THEN MulModStep(rb, ra, c, ChunkBase(c))
                             ELSE MulModStep(ra, rb, c, ChunkBase(c)),
                 LAMBDA h : [q |-> (a \div c) * b + ra * (b \div c) + h.q, r |-> h.r]))

\* floor(a * b / c) for a, b >= 0, c > 0.
MulDiv(a, b, c) == MulDivMod(a, b, c).q

\* trunc(a * b / c) for signed a, b and c > 0.
SMulDiv(a, b, c) == Sgn(a) * Sgn(b) * MulDiv(Abs(a), Abs(b), c)

\* The sum of the two cross products of BigMul, and its low half
BigCross(a, b) == (a \div 2^15) * (b % 2^15) + (a % 2^15) * (b \div 2^15)

BigLow(a, b, cross) == (a % 2^15) * (b % 2^15) + (cross % 2^15) * 2^15

\* a * b as hi * 2^30 + lo, for 0 <= a, b < 2^30.
BigMul(a, b) ==
    Bind(BigCross(a, b), LAMBDA cross :
        Bind(BigLow(a, b, cross), LAMBDA low :
            [hi |-> (a \div 2^15) * (b \div 2^15) + cross \div 2^15 + low \div 2^30,
             lo |-> low % 2^30]))

BigLeq(x, y) == x.hi < y.hi \/ (x.hi = y.hi /\ x.lo <= y.lo)

\* The largest r = acc + (bits below 2^k) with r * r <= n.
RECURSIVE ISqrtBits(_, _, _)
ISqrtBits(acc, k, n) ==
    IF k < 0 THEN acc
    ELSE Bind2(IF BigLeq(BigMul(acc + 2^k, acc + 2^k), n) THEN acc + 2^k ELSE acc, k - 1,
               LAMBDA next, below : ISqrtBits(next, below, n))

\* floor(sqrt(m * c)), for 0 <= m, c < 2^30.
ISqrtMul(m, c) == Bind(BigMul(m, c), LAMBDA n : ISqrtBits(0, 29, n))

(***************************************************************************)
(* Extended numbers: the values of a JavaScript number.                    *)
(***************************************************************************)
Fin(v) == [k |-> "fin", v |-> v]

NaN == [k |-> "nan", v |-> 0]

PInf == [k |-> "inf", v |-> 1]

NInf == [k |-> "inf", v |-> 0 - 1]

IsFin(x) == x.k = "fin"

IsNaN(x) == x.k = "nan"

IsInf(x) == x.k = "inf"

\* Sign of an extended number that is not NaN.
XSgn(x) == Sgn(x.v)

InfOf(sign) == IF sign < 0 THEN NInf ELSE PInf

\* a + b
XAdd(x, y) ==
    Bind2(x, y, LAMBDA a, b :
        IF IsNaN(a) \/ IsNaN(b) THEN NaN
        ELSE IF IsInf(a) /\ IsInf(b) THEN (IF a.v = b.v THEN a ELSE NaN)
        ELSE IF IsInf(a) THEN a
        ELSE IF IsInf(b) THEN b
        ELSE Fin(a.v + b.v))

\* -a
XNeg(x) == Bind(x, LAMBDA a : IF IsNaN(a) THEN NaN ELSE [k |-> a.k, v |-> 0 - a.v])

\* a - b
XSub(x, y) == XAdd(x, XNeg(y))

\* a * b, where the units of a and b multiply to s times the unit of the result.
XMul(x, y, s) ==
    Bind2(x, y, LAMBDA a, b :
        IF IsNaN(a) \/ IsNaN(b) THEN NaN
        ELSE IF IsInf(a) \/ IsInf(b)
             THEN (IF XSgn(a) = 0 \/ XSgn(b) = 0 THEN NaN ELSE InfOf(XSgn(a) * XSgn(b)))
        ELSE Fin(SMulDiv(a.v, b.v, s)))

\* a / b, where the result has s units per (unit of a / unit of b).
XDiv(x, y, s) ==
    Bind2(x, y, LAMBDA a, b :
        IF IsNaN(a) \/ IsNaN(b) THEN NaN
        ELSE IF IsInf(a) THEN (IF IsInf(b) THEN NaN
                               ELSE InfOf(a.v * (IF b.v < 0 THEN 0 - 1 ELSE 1)))
        ELSE IF IsInf(b) THEN Fin(0)
        ELSE IF b.v = 0 THEN (IF a.v = 0 THEN NaN ELSE InfOf(a.v))
        ELSE Fin(Sgn(a.v) * Sgn(b.v) * MulDiv(Abs(a.v), s, Abs(b.v))))

\* a < b (false when either is NaN)
XLt(x, y) ==
    Bind2(x, y, LAMBDA a, b :
        IF IsNaN(a) \/ IsNaN(b) THEN FALSE
        ELSE IF IsInf(a) THEN a.v < 0 /\ a # b
        ELSE IF IsInf(b) THEN b.v > 0
        ELSE a.v < b.v)

XGt(x, y) == XLt(y, x)

\* a <= b (false when either is NaN)
XLe(x, y) == Bind2(x, y, LAMBDA a, b : ~IsNaN(a) /\ ~IsNaN(b) /\ ~XLt(b, a))

XGe(x, y) == XLe(y, x)

\* Math.max(a, b): NaN when either is NaN
XMax(x, y) ==
    Bind2(x, y, LAMBDA a, b : IF IsNaN(a) \/ IsNaN(b) THEN NaN ELSE IF XLt(a, b) THEN b ELSE a)

\* Math.min(a, b): NaN when either is NaN
XMin(x, y) ==
    Bind2(x, y, LAMBDA a, b : IF IsNaN(a) \/ IsNaN(b) THEN NaN ELSE IF XLt(b, a) THEN b ELSE a)

\* Math.abs(a)
XAbs(x) == Bind(x, LAMBDA a : IF IsNaN(a) THEN NaN ELSE [k |-> a.k, v |-> Abs(a.v)])

\* Math.floor(a / n) for a value a of unit 1 and an integer n > 0
XFloorDiv(x, n) == Bind(x, LAMBDA a : IF IsFin(a) THEN Fin(a.v \div n) ELSE a)

\* Sum of a sequence of extended numbers
RECURSIVE XSum(_)
XSum(s) == Bind(s, LAMBDA xs : IF xs = <<>> THEN Fin(0) ELSE XAdd(xs[1], XSum(Tail(xs))))

(***************************************************************************)
(* constants.ts                                                            *)
(***************************************************************************)
SECONDS_PER_SLOT == 12

SLOTS_PER_EPOCH == 32

SECONDS_PER_EPOCH == SECONDS_PER_SLOT * SLOTS_PER_EPOCH

EPOCHS_PER_DAY == (24 * 60 * 60) \div SECONDS_PER_EPOCH

\* EPOCHS_PER_YEAR = EPOCHS_PER_DAY * 365.25, kept as four times its value
\* (365.25 * 4 = 1461) so that it stays an integer.
EPOCHS_PER_YEAR_X4 == EPOCHS_PER_DAY * 1461

MIN_PER_EPOCH_CHURN_LIMIT == 4

CHURN_LIMIT_QUOTIENT == 65536

BASE_REWARD_FACTOR == 64

BASE_REWARDS_PER_EPOCH == 4

TOTAL_ETH_SUPPLY == 120000000

\* 1e9: Gwei per ETH (protocol.ts multiplies and divides by the literal 1e9)
GweiPerEth == 10^9

\* The fixed per-validator stake, 32 ETH (a literal throughout the source)
EthPerValidator == 32

(***************************************************************************)
(* protocol.ts                                                             *)
(***************************************************************************)
\* Math.floor(Math.sqrt(totalEffectiveBalance * 1e9)) for a finite balance in ETH
SqrtTotalGwei(totalEth) == ISqrtMul(totalEth, GweiPerEth)

\* getTheoreticalAPR(totalStakedETH), in percent.
\*   baseRewardPerEpoch = (32e9 * BASE_REWARD_FACTOR) / floor(sqrt(total * 1e9)) / 1e9
\*   APR = baseRewardPerEpoch * BASE_REWARDS_PER_EPOCH * EPOCHS_PER_YEAR / 32 * 100
\* The factors 32 and 1e9 cancel, which leaves
\*   BASE_REWARD_FACTOR * BASE_REWARDS_PER_EPOCH * EPOCHS_PER_YEAR * 100 / floor(sqrt).
\* NaN <= 0 is false, so a NaN stake runs through the formula and yields NaN;
\* a square root of 0 divides by zero.
getTheoreticalAPR(totalStakedETH) ==
    Bind(totalStakedETH, LAMBDA total :
        IF IsNaN(total) THEN NaN
        ELSE IF XLe(total, Fin(0)) THEN Fin(0)
        ELSE IF IsInf(total) THEN Fin(0)
        ELSE XDiv(Fin((BASE_REWARD_FACTOR * BASE_REWARDS_PER_EPOCH * EPOCHS_PER_YEAR_X4) \div 4),
                  Fin(SqrtTotalGwei(total.v)),
                  100 * PctScale))

\* A limit that takes the smaller of the two
ChurnLimitAtMost(activeValidatorCount) ==
    XMin(Fin(MIN_PER_EPOCH_CHURN_LIMIT), XFloorDiv(activeValidatorCount, CHURN_LIMIT_QUOTIENT))

\* getChurnLimit(activeValidatorCount)
getChurnLimit(activeValidatorCount) ==
    XMax(Fin(MIN_PER_EPOCH_CHURN_LIMIT), XFloorDiv(activeValidatorCount, CHURN_LIMIT_QUOTIENT))

\* getStakeRatio(totalStakedETH) = totalStakedETH / TOTAL_ETH_SUPPLY * 100, in percent
getStakeRatio(totalStakedETH) == XDiv(totalStakedETH, Fin(TOTAL_ETH_SUPPLY), 100 * PctScale)

\* The protocol functions once more, for stakes finer than one ETH and without
\* the rounding of the APR to 1/PctScale.  A stake is a whole number of tenths
\* of an ETH, and an APR is a ratio num / den of integers, as a fraction of 1
\* (the source's percentage is 100 * num / den).  In the source the APR is the
\* double nearest to such a ratio; two ratios over the denominators q1 < q2 <
\* 2^30 differ by more than 1e-9 of their value, far more than the rounding of
\* a double, so that the doubles compare as the ratios do.
GweiPerTenth == GweiPerEth \div 10

\* BASE_REWARD_FACTOR * BASE_REWARDS_PER_EPOCH * EPOCHS_PER_YEAR, what is left of
\* getTheoreticalAPR's numerator when the factors 32 and 1e9 cancel
AprNumerator == (BASE_REWARD_FACTOR * BASE_REWARDS_PER_EPOCH * EPOCHS_PER_YEAR_X4) \div 4

Ratio(num, den) == [num |-> num, den |-> den]

\* x > y and x = y for two ratios with positive denominators below 2^30 and
\* numerators in 0..2^30
RatioGt(x, y) == ~BigLeq(BigMul(x.num, y.den), BigMul(y.num, x.den))

RatioEq(x, y) == BigMul(x.num, y.den) = BigMul(y.num, x.den)

\* Math.floor(Math.sqrt(totalEffectiveBalance * 1e9)) for a balance in tenths of
\* an ETH
SqrtOfTenthsInGwei(tenths) == ISqrtMul(tenths, GweiPerTenth)

\* An APR that multiplies by the square root where the source divides by it
GrowingAPRRatio(tenths) ==
    IF tenths <= 0 THEN Ratio(0, 1)
    ELSE Ratio(SqrtOfTenthsInGwei(tenths), AprNumerator)

\* getTheoreticalAPR(totalStakedETH) for a stake in tenths of an ETH, as a ratio:
\* 0 for a stake <= 0, else AprNumerator / floor(sqrt(stake in Gwei)).  (A stake
\* below 1 Gwei has the root 0 and the APR Infinity; a tenth of an ETH is the
\* least positive stake here.)
TheoreticalAPRRatio(tenths) ==
    IF tenths <= 0 THEN Ratio(0, 1)
    ELSE Ratio(AprNumerator, SqrtOfTenthsInGwei(tenths))

\* An inverse that forgets to square the root
EquilibriumStakeUnsquared(targetAPR) ==
    IF targetAPR.num <= 0 THEN TOTAL_ETH_SUPPLY * 10
    ELSE MulDiv(AprNumerator, targetAPR.den, targetAPR.num) \div GweiPerTenth

\* getEquilibriumStakeForAPR(targetAPR) for a target given as a ratio, in tenths
\* of an ETH (rounded down): TOTAL_ETH_SUPPLY for a target <= 0, else
\*   sqrtTotalStakeGwei = numerator / targetAPR
\*   totalStakeGwei = sqrtTotalStakeGwei * sqrtTotalStakeGwei, divided by 1e9.
\* The quotient numerator / targetAPR is exact here for the targets that
\* getTheoreticalAPR returns and for the targets that divide the numerator.
getEquilibriumStakeForAPR(targetAPR) ==
    IF targetAPR.num <= 0 THEN TOTAL_ETH_SUPPLY * 10
    ELSE Bind(MulDiv(AprNumerator, targetAPR.den, targetAPR.num), LAMBDA sqrtTotalStakeGwei :
            MulDiv(sqrtTotalStakeGwei, sqrtTotalStakeGwei, GweiPerTenth))

(***************************************************************************)
(* execution.ts                                                            *)
(***************************************************************************)
FeeRegime == {"calm", "elevated", "hot"}

\* REGIME_THRESHOLDS, in ETH per validator per day (unit 1/Scale)
REGIME_THRESHOLDS ==
    [calm     |-> [max |-> Fin(Scale \div 1000)],
     elevated |-> [min |-> Fin(Scale \div 1000), max |-> Fin((3 * Scale) \div 1000)],
     hot      |-> [min |-> Fin((3 * Scale) \div 1000)]]

\* A matrix whose calm row loses one percent: 0.85 + 0.12 + 0.02
LeakyTransitionMatrix ==
    [calm     |-> [toCalm |-> (85 * Scale) \div 100, toElevated |-> (12 * Scale) \div 100,
                   toHot  |-> (2 * Scale) \div 100],
     elevated |-> [toCalm |-> (25 * Scale) \div 100, toElevated |-> (55 * Scale) \div 100,
                   toHot  |-> (20 * Scale) \div 100],
     hot      |-> [toCalm |-> (10 * Scale) \div 100, toElevated |-> (40 * Scale) \div 100,
                   toHot  |-> (50 * Scale) \div 100]]

\* TRANSITION_MATRIX, daily probabilities (unit 1/Scale)
TRANSITION_MATRIX ==
    [calm     |-> [toCalm |-> (85 * Scale) \div 100, toElevated |-> (12 * Scale) \div 100,
                   toHot  |-> (3 * Scale) \div 100],
     elevated |-> [toCalm |-> (25 * Scale) \div 100, toElevated |-> (55 * Scale) \div 100,
                   toHot  |-> (20 * Scale) \div 100],
     hot      |-> [toCalm |-> (10 * Scale) \div 100, toElevated |-> (40 * Scale) \div 100,
                   toHot  |-> (50 * Scale) \div 100]]

\* MEAN_REVERSION: target yield (unit 1/Scale) and half-life in days
MEAN_REVERSION ==
    [calm     |-> [target |-> Fin((5 * Scale) \div 10000), halfLife |-> 7],
     elevated |-> [target |-> Fin((2 * Scale) \div 1000),  halfLife |-> 5],
     hot      |-> [target |-> Fin((4 * Scale) \div 1000),  halfLife |-> 3]]

\* mean(xs) of simple-statistics for a non-empty list: sum / length.  Its sum is
\* a compensated (Kahan-Babuska) summation: from the second element on it adds
\* "sum - (sum + x) + x" to a correction term, which is NaN as soon as either
\* operand is not finite; a one-element list is returned as it is.
Mean(s) ==
    Bind(s, LAMBDA xs :
        IF Len(xs) >= 2 /\ (\E i \in 1..Len(xs) : ~IsFin(xs[i])) THEN NaN
        ELSE XDiv(XSum(xs), Fin(Len(xs)), 1))

\* The per-validator daily yield of one execution data point:
\* (priorityFeesETH + mevRewardsETH) / activeValidators
PointYield(d, activeValidators) ==
    XDiv(Fin(d.priorityFeesETH + d.mevRewardsETH), activeValidators, Scale)

\* A classification with closed tiers: a yield at a threshold goes to the
\* regime below it
ClassifyWithClosedTiers(yieldPerValidator) ==
    Bind(yieldPerValidator, LAMBDA y :
        IF XLe(y, REGIME_THRESHOLDS.calm.max) THEN "calm"
        ELSE IF XLe(y, REGIME_THRESHOLDS.elevated.max) THEN "elevated"
        ELSE "hot")

\* classifyYield(yieldPerValidator)
classifyYield(yieldPerValidator) ==
    Bind(yieldPerValidator, LAMBDA y :
        IF XLt(y, REGIME_THRESHOLDS.calm.max) THEN "calm"
        ELSE IF XLt(y, REGIME_THRESHOLDS.elevated.max) THEN "elevated"
        ELSE "hot")

\* The position of list[i] after a stable sort by descending timestamp: one more
\* than the number of elements that sort before it (Array.prototype.sort is stable).
RankDesc(list, i) ==
    1 + Cardinality({j \in 1..Len(list) :
                        \/ list[j].timestamp > list[i].timestamp
                        \/ (list[j].timestamp = list[i].timestamp /\ j < i)})

\* The list with its elements at the given positions
Placed(list, rank) ==
    [k \in 1..Len(list) |-> list[CHOOSE i \in 1..Len(list) : rank[i] = k]]

\* [...list].sort((a, b) => b.timestamp.getTime() - a.timestamp.getTime())
SortDesc(list) ==
    Bind(Eager([i \in 1..Len(list) |-> RankDesc(list, i)]),
         LAMBDA rank : Eager(Placed(list, rank)))

\* The position of list[i] after a stable sort by ascending timestamp.
RankAsc(list, i) ==
    1 + Cardinality({j \in 1..Len(list) :
                        \/ list[j].timestamp < list[i].timestamp
                        \/ (list[j].timestamp = list[i].timestamp /\ j < i)})

\* [...list].sort((a, b) => a.timestamp.getTime() - b.timestamp.getTime())
SortAsc(list) ==
    Bind(Eager([i \in 1..Len(list) |-> RankAsc(list, i)]),
         LAMBDA rank : Eager(Placed(list, rank)))

\* list.slice(0, n)
Slice(list, n) == SubSeq(list, 1, IF Len(list) < n THEN Len(list) ELSE n)

\* The number of days of the recent window (the literal 7 of slice(0, 7))
RecentWindow == 7

\* The per-validator daily yields of the points of a list
Yields(list, activeValidators) ==
    Eager([i \in 1..Len(list) |-> PointYield(list[i], activeValidators)])

\* The regime and raw confidence of the window-average yield (detectRegime, "Classify regime")
ClassifyAverage(average) ==
    Bind(average, LAMBDA avgYield :
    IF XLt(avgYield, REGIME_THRESHOLDS.calm.max)
    THEN [regime |-> "calm",
          confidence |-> XSub(Fin(Scale), XDiv(avgYield, REGIME_THRESHOLDS.calm.max, Scale))]
    ELSE IF XLt(avgYield, REGIME_THRESHOLDS.elevated.max)
    THEN [regime |-> "elevated",
          confidence |->
              XSub(Fin(Scale),
                   XMul(XAbs(XSub(XDiv(XSub(avgYield, REGIME_THRESHOLDS.elevated.min),
                                       XSub(REGIME_THRESHOLDS.elevated.max,
                                            REGIME_THRESHOLDS.elevated.min), Scale),
                                  Fin(Scale \div 2))),
                        Fin(2), 1))]
    ELSE [regime |-> "hot",
          confidence |-> XMin(Fin(Scale),
                              XDiv(XSub(avgYield, REGIME_THRESHOLDS.hot.min),
                                   Fin((2 * Scale) \div 1000), Scale))])

\* The number of all the points, given by their yields, that classify to regime
CountAllDaysInRegime(yields, regime) ==
    Cardinality({i \in 1..Len(yields) : classifyYield(yields[i]) = regime})

\* The loop "for (const point of sorted)": the number of leading points, given
\* by their yields, that classify to regime, counting up to the first mismatch.
CountDaysInRegime(yields, regime) ==
    Bind({i \in 1..Len(yields) : classifyYield(yields[i]) # regime}, LAMBDA mismatch :
        IF mismatch = {} THEN Len(yields)
        ELSE (CHOOSE i \in mismatch : \A j \in mismatch : i <= j) - 1)

\* A detection that differs from the default one in the regime and its row
ElevatedDetection ==
    [currentRegime |-> "elevated",
     regimeConfidence |-> Fin(Scale \div 2),
     daysInRegime |-> 0,
     transitionProbability |-> TRANSITION_MATRIX.elevated]

\* The result of detectRegime on an empty history
DefaultDetection ==
    [currentRegime |-> "calm",
     regimeConfidence |-> Fin(Scale \div 2),
     daysInRegime |-> 0,
     transitionProbability |-> TRANSITION_MATRIX.calm]

\* detectRegime(history, activeValidators), after its guard: sorted is the
\* history sorted newest first, recentDays its first 7 points, dailyYields their
\* yields and avgYield the mean of these.  The standard deviation yieldStd that
\* the function also computes is never read and is left out.
DetectFrom(list, activeValidators) ==
    Bind(Yields(SortDesc(list), activeValidators), LAMBDA sortedYields :
        Bind(ClassifyAverage(Mean(Slice(sortedYields, RecentWindow))), LAMBDA class :
            [currentRegime |-> class.regime,
             regimeConfidence |-> XMax(Fin((3 * Scale) \div 10), XMin(Fin(Scale), class.confidence)),
             daysInRegime |-> CountDaysInRegime(sortedYields, class.regime),
             transitionProbability |-> TRANSITION_MATRIX[class.regime]]))

\* detectRegime(history, activeValidators)
detectRegime(list, activeValidators) ==
    IF Len(list) = 0 THEN DefaultDetection ELSE DetectFrom(list, activeValidators)

\* 0.5^(r / halfLife) for 0 <= r < halfLife, rounded to the unit 1/Scale, for the
\* three half-lives of MEAN_REVERSION (Math.pow has no exact integer form).
HalfRoot(halfLife, r) ==
    CASE halfLife = 3 -> <<1000000, 793701, 629961>>[r + 1]
      [] halfLife = 5 -> <<1000000, 870551, 757858, 659754, 574349>>[r + 1]
      [] halfLife = 7 -> <<1000000, 905724, 820335, 742997, 672950, 609507, 552045>>[r + 1]

\* Math.pow(0.5, daysAhead / halfLife)
\*   = 0.5^(daysAhead div halfLife) * 0.5^((daysAhead mod halfLife) / halfLife)
DecayFactor(daysAhead, halfLife) ==
    Fin(IF daysAhead \div halfLife > 29 THEN 0
        ELSE HalfRoot(halfLife, daysAhead % halfLife) \div 2^(daysAhead \div halfLife))

\* The one-hot occupancy vector at currentRegime
OneHot(currentRegime) ==
    [calm     |-> IF currentRegime = "calm" THEN Scale ELSE 0,
     elevated |-> IF currentRegime = "elevated" THEN Scale ELSE 0,
     hot      |-> IF currentRegime = "hot" THEN Scale ELSE 0]

\* A pass of the loop that leaves the occupancy vector as it is
StayInPlace(p) == p

\* One pass of the loop "for (let d = 0; d < daysAhead; d++)": the occupancy
\* vector times the transition matrix
PropagateStep(p) ==
    [calm     |-> MulDiv(p.calm, TRANSITION_MATRIX.calm.toCalm, Scale)
                  + MulDiv(p.elevated, TRANSITION_MATRIX.elevated.toCalm, Scale)
                  + MulDiv(p.hot, TRANSITION_MATRIX.hot.toCalm, Scale),
     elevated |-> MulDiv(p.calm, TRANSITION_MATRIX.calm.toElevated, Scale)
                  + MulDiv(p.elevated, TRANSITION_MATRIX.elevated.toElevated, Scale)
                  + MulDiv(p.hot, TRANSITION_MATRIX.hot.toElevated, Scale),
     hot      |-> MulDiv(p.calm, TRANSITION_MATRIX.calm.toHot, Scale)
                  + MulDiv(p.elevated, TRANSITION_MATRIX.elevated.toHot, Scale)
                  + MulDiv(p.hot, TRANSITION_MATRIX.hot.toHot, Scale)]

\* m more passes of the loop, appended to the vectors of the passes before them
RECURSIVE ExtendPath(_, _)
ExtendPath(path, m) ==
    IF m = 0 THEN path
    ELSE Bind(ExtendPath(path, m - 1),
              LAMBDA longer : Append(longer, PropagateStep(longer[Len(longer)])))

\* The occupancy vectors after 0, 1, ..., n passes of the loop, started one-hot
\* at currentRegime (the vector after d passes is element d + 1), eight passes
\* at a time
RECURSIVE OccupancyPath(_, _)
OccupancyPath(currentRegime, n) ==
    IF n <= 8 THEN ExtendPath(<<OneHot(currentRegime)>>, n)
    ELSE Bind(OccupancyPath(currentRegime, n - 8), LAMBDA path : ExtendPath(path, 8))

\* The days that one forecast spans at most (monthsAhead * 30)
Horizon == MaxMonths * 30

\* The occupancy vectors over the horizon for each start regime, computed once
OccupancyAfter ==
    [calm     |-> OccupancyPath("calm", Horizon),
     elevated |-> OccupancyPath("elevated", Horizon),
     hot      |-> OccupancyPath("hot", Horizon)]

\* The occupancy vector after the loop "for (let d = 0; d < daysAhead; d++)"
Occupancy(currentRegime, daysAhead) ==
    IF daysAhead <= Horizon THEN OccupancyAfter[currentRegime][daysAhead + 1]
    ELSE OccupancyPath(currentRegime, daysAhead)[daysAhead + 1]

\* The regime calm, whatever the occupancy vector
AlwaysCalmRegime(p) == "calm"

\* "Most likely regime": ties go to calm, then to elevated
MostLikelyRegime(p) ==
    IF p.calm >= p.elevated /\ p.calm >= p.hot THEN "calm"
    ELSE IF p.elevated >= p.hot THEN "elevated"
    ELSE "hot"

\* dailyYield * 365 / 32 * 100: a daily yield (unit 1/Scale) as an APR in percent
Annualize(dailyYield) == XMul(dailyYield, Fin(365 * 100 * PctScale), EthPerValidator * Scale)

\* Math.sqrt(d) for every day d of the horizon, in unit 1/Scale, computed once
SqrtOfDay == Eager([d \in 1..Horizon |-> ISqrtMul(d * Scale, Scale)])

\* Math.sqrt(n) for an integer n >= 0, in unit 1/Scale
SqrtOfInt(n) == Fin(IF n \in 1..Horizon THEN SqrtOfDay[n] ELSE ISqrtMul(n * Scale, Scale))

\* feeRatio = 0.4: 40% priority fees, 60% MEV
FeeRatio == Fin((4 * Scale) \div 10)

\* The yield after mean reversion toward the target of the current regime
RevertedYield(currentYield, currentRegime, daysAhead) ==
    Bind(DecayFactor(daysAhead, MEAN_REVERSION[currentRegime].halfLife), LAMBDA decayFactor :
        XAdd(XMul(currentYield, decayFactor, Scale),
             XMul(MEAN_REVERSION[currentRegime].target, XSub(Fin(Scale), decayFactor), Scale)))

\* finalYield = revertedYield * 0.7 + regimeTarget * 0.3
FinalYield(revertedYield, expectedRegime) ==
    XAdd(XMul(revertedYield, Fin((7 * Scale) \div 10), Scale),
         XMul(MEAN_REVERSION[expectedRegime].target, Fin((3 * Scale) \div 10), Scale))

\* The result record of forecastExecutionYield, from finalYield, its annualized
\* APR and uncertaintyFactor = 1 + sqrt(daysAhead) * 0.1
ExecutionForecast(finalYield, annualizedAPR, expectedRegime, uncertaintyFactor) ==
    [dailyYieldETH |-> finalYield,
     annualizedAPR |-> annualizedAPR,
     regime        |-> expectedRegime,
     confidence    |-> [lower |-> XDiv(annualizedAPR, uncertaintyFactor, Scale),
                        upper |-> XMul(annualizedAPR, uncertaintyFactor, Scale)],
     components    |-> [priorityFees |-> Annualize(XMul(finalYield, FeeRatio, Scale)),
                        mevRewards   |-> Annualize(XMul(finalYield, XSub(Fin(Scale), FeeRatio),
                                                        Scale))]]

\* forecastExecutionYield(currentYield, currentRegime, daysAhead, activeValidators);
\* the function never reads activeValidators.
forecastExecutionYield(currentYield, currentRegime, daysAhead, activeValidators) ==
    Bind(MostLikelyRegime(Occupancy(currentRegime, daysAhead)), LAMBDA expectedRegime :
        Bind(FinalYield(RevertedYield(currentYield, currentRegime, daysAhead), expectedRegime),
             LAMBDA finalYield :
                Bind2(Annualize(finalYield),
                      XAdd(Fin(Scale), XMul(SqrtOfInt(daysAhead), Fin(Scale \div 10), Scale)),
                      LAMBDA annualizedAPR, uncertaintyFactor :
                          ExecutionForecast(finalYield, annualizedAPR, expectedRegime,
                                            uncertaintyFactor))))

\* const now = new Date(): the day on which the mock history is generated
Now == 100

\* One point of the mock history: the regime's target yield times the validator
\* count (baseYield), split 40/60 between priority fees and MEV.  The random
\* noise of the source (up to +-20% of baseYield) and its random fee ratio
\* (0.35 to 0.45) are taken at their midpoints.
MockPoint(timestamp, regime, activeValidators) ==
    Bind(MulDiv(MEAN_REVERSION[regime].target.v, activeValidators, Scale), LAMBDA totalYield :
        [timestamp |-> timestamp,
         priorityFeesETH |-> (totalYield * 4) \div 10,
         mevRewardsETH |-> totalYield - (totalYield * 4) \div 10])

\* The regime that the random walk of the generator is in, i days before now,
\* on three of its paths: calm throughout, or calm and then elevated (hot) for
\* the last ten days.  Every path has positive probability, since every entry
\* of TRANSITION_MATRIX is positive.
MockRegime(path, i) == IF i < 10 THEN path ELSE "calm"

\* A generator that returns the empty history
NoMockHistory(days, activeValidators) == {<<>>}

\* generateMockExecutionHistory(days, activeValidators), for an integer validator
\* count: the set of histories that the random generator can return, sampled
\* at one history per path.  The points are pushed from the oldest (i = days)
\* to the newest (i = 0).
generateMockExecutionHistory(days, activeValidators) ==
    {Eager([k \in 1..(days + 1) |->
               MockPoint(Now - (days + 1 - k), MockRegime(path, days + 1 - k), activeValidators)])
     : path \in FeeRegime}

(***************************************************************************)
(* forecast.ts (src/unnamed/part_000)                                      *)
(***************************************************************************)
\* DEFAULT_SCENARIO; netFlowBias, mevMultiplier and queuePressure in unit 1/Scale
DEFAULT_SCENARIO ==
    [netFlowBias |-> 0, mevMultiplier |-> Scale, queuePressure |-> Scale,
     feeRegimeBias |-> "current"]

\* The bullish preset of compareScenarios: 0.5, 1.3, 1.5, 'elevated'
BULLISH_SCENARIO ==
    [netFlowBias |-> Scale \div 2, mevMultiplier |-> (13 * Scale) \div 10,
     queuePressure |-> (15 * Scale) \div 10, feeRegimeBias |-> "elevated"]

\* The bearish preset of compareScenarios: -0.5, 0.7, 0.5, 'calm'
BEARISH_SCENARIO ==
    [netFlowBias |-> 0 - (Scale \div 2), mevMultiplier |-> (7 * Scale) \div 10,
     queuePressure |-> Scale \div 2, feeRegimeBias |-> "calm"]

\* The three calls of compareScenarios, in the order in which it makes them
ScenarioOrder == <<"baseline", "bullish", "bearish">>

ScenarioOf ==
    [baseline |-> DEFAULT_SCENARIO, bullish |-> BULLISH_SCENARIO, bearish |-> BEARISH_SCENARIO]

\* All the positions i > 1 of the ascending history, whatever daysDiff
EveryLaterPosition(sortedHistory) ==
    [i \in 1..(Len(sortedHistory) - 1) |-> i + 1]

\* The positions i > 1 of the ascending history with daysDiff > 0 to the point before
LaterDays(sortedHistory) ==
    SelectSeq([i \in 1..(Len(sortedHistory) - 1) |-> i + 1],
              LAMBDA i : sortedHistory[i].timestamp - sortedHistory[i - 1].timestamp > 0)

\* The loop of calculateStakingTrend: stakeDiff / daysDiff of every consecutive
\* pair of the ascending history whose timestamps differ
DailyChanges(sortedHistory) ==
    Bind(LaterDays(sortedHistory), LAMBDA later :
        Eager([k \in 1..Len(later) |->
                  XDiv(Fin(sortedHistory[later[k]].totalStakedETH
                           - sortedHistory[later[k] - 1].totalStakedETH),
                       Fin(sortedHistory[later[k]].timestamp
                           - sortedHistory[later[k] - 1].timestamp), 1)]))

\* standardDeviation(xs) of simple-statistics: the population standard
\* deviation, sqrt(sum((x - mean)^2) / n), for finite xs
StandardDeviation(xs) ==
    Bind(Mean(xs).v, LAMBDA m :
        Fin(ISqrtMul(XSum(Eager([i \in 1..Len(xs) |-> Fin((xs[i].v - m) * (xs[i].v - m))])).v
                     \div Len(xs), 1)))

\* calculateStakingTrend after its first guard, from the daily changes.  Its
\* third result r2 (the fit of a linear regression) is read by no caller in the
\* engine and is left out.
TrendOf(dailyChanges) ==
    IF Len(dailyChanges) = 0
    THEN [dailyGrowthRate |-> Fin(0), volatility |-> Fin(0)]
    ELSE [dailyGrowthRate |-> Mean(dailyChanges),
          volatility |-> IF Len(dailyChanges) > 1
                         THEN StandardDeviation(dailyChanges) ELSE Fin(0)]

\* calculateStakingTrend(history), in ETH per day
calculateStakingTrend(list) ==
    IF Len(list) < 2 THEN [dailyGrowthRate |-> Fin(0), volatility |-> Fin(0)]
    ELSE Bind(DailyChanges(SortAsc(list)), LAMBDA dailyChanges : TrendOf(dailyChanges))

\* n * sum(x * y) - sum(x) * sum(y) over the points (x[i], y[i]) of two lists of
\* integers of the same length n
CrossDeviation(xs, ys) ==
    Len(xs) * XSum(Eager([i \in 1..Len(xs) |-> Fin(xs[i] * ys[i])])).v
    - XSum(Eager([i \in 1..Len(xs) |-> Fin(xs[i])])).v
      * XSum(Eager([i \in 1..Len(ys) |-> Fin(ys[i])])).v

\* r2 of calculateStakingTrend past its two guards, in unit 1/Scale: the square
\* of the sample correlation between the stakes and the predictions m * i + b
\* of their linear regression on the index i.  With a slope m of 0 all the
\* predictions are equal and the correlation is 0 / 0; otherwise it is the
\* correlation of the stakes with the index, up to its sign.  (For stakes
\* whose deviations stay below 2^15.)
FitR2(sortedHistory) ==
    Bind2(Eager([i \in 1..Len(sortedHistory) |-> i - 1]),
          Eager([i \in 1..Len(sortedHistory) |-> sortedHistory[i].totalStakedETH]),
          LAMBDA xs, ys :
             IF CrossDeviation(xs, ys) = 0 THEN NaN
             ELSE Fin(MulDiv(CrossDeviation(xs, ys) * CrossDeviation(xs, ys), Scale,
                             CrossDeviation(xs, xs) * CrossDeviation(ys, ys))))

\* The value that calculateStakingTrend returns, r2 included: r2 is 0 at the
\* two guards
StakingTrendResult(list) ==
    Bind(calculateStakingTrend(list), LAMBDA fitted :
        [dailyGrowthRate |-> fitted.dailyGrowthRate,
         volatility |-> fitted.volatility,
         r2 |-> IF Len(list) < 2 THEN Fin(0)
                ELSE IF Len(DailyChanges(SortAsc(list))) = 0 THEN Fin(0)
                ELSE FitR2(SortAsc(list))])

\* calculateQueuePressure(entryQueueLength, exitQueueLength, activeValidators):
\* entryDays and exitDays are computed and dropped
calculateQueuePressure(entryQueueLength, exitQueueLength, activeValidators) ==
    XSub(entryQueueLength, exitQueueLength)

\* getMaxDailyStakeChange(activeValidators) = churnLimit * EPOCHS_PER_DAY * 32
getMaxDailyStakeChange(activeValidators) ==
    XMul(XMul(getChurnLimit(activeValidators), Fin(EPOCHS_PER_DAY), 1), Fin(EthPerValidator), 1)

\* targetAPR = 4.0, the default third argument of applyAPRFeedback (percent)
TargetAPR == Fin(4 * PctScale)

\* applyAPRFeedback(baseGrowthRate, currentAPR):
\* baseGrowthRate * (1 + (currentAPR - targetAPR) * 0.1)
applyAPRFeedback(baseGrowthRate, currentAPR) ==
    XMul(baseGrowthRate,
         XAdd(Fin(Scale), XMul(XSub(currentAPR, TargetAPR), Fin(Scale \div 10), PctScale)),
         Scale)

\* The literal 30 of "monthsAhead * 30" and of the monthly filter
DaysPerMonth == 30

\* confidenceMultiplier = 1.96, in hundredths
ConfidenceMultiplierX100 == 196

\* A drivers record whose executionAPR is the forecaster's annualizedAPR, not
\* scaled by scenario.mevMultiplier
UnscaledDrivers(consensusAPR, adjustedExecAPR, totalAPR, execForecast, executionShare) ==
    [consensusAPR    |-> consensusAPR,
     executionAPR    |-> execForecast.annualizedAPR,
     totalAPR        |-> totalAPR,
     consensusPct    |-> XDiv(consensusAPR, totalAPR, 100 * PctScale),
     executionPct    |-> executionShare,
     priorityFeesPct |-> XMul(XDiv(execForecast.components.priorityFees, adjustedExecAPR, Scale),
                              executionShare, Scale),
     mevPct          |-> XMul(XDiv(execForecast.components.mevRewards, adjustedExecAPR, Scale),
                              executionShare, Scale),
     feeRegime       |-> execForecast.regime]

\* The drivers record of one day (DriverAttribution), with
\* executionShare = (adjustedExecAPR / totalAPR) * 100
Drivers(consensusAPR, adjustedExecAPR, totalAPR, execForecast, executionShare) ==
    [consensusAPR    |-> consensusAPR,
     executionAPR    |-> adjustedExecAPR,
     totalAPR        |-> totalAPR,
     consensusPct    |-> XDiv(consensusAPR, totalAPR, 100 * PctScale),
     executionPct    |-> executionShare,
     priorityFeesPct |-> XMul(XDiv(execForecast.components.priorityFees, adjustedExecAPR, Scale),
                              executionShare, Scale),
     mevPct          |-> XMul(XDiv(execForecast.components.mevRewards, adjustedExecAPR, Scale),
                              executionShare, Scale),
     feeRegime       |-> execForecast.regime]

\* "Apply queue constraints": growth above 0 is capped at maxDailyChange, any
\* other growth (negative, zero or NaN) is floored at -maxDailyChange
ConstrainGrowth(growth, maxChange) ==
    Bind(growth, LAMBDA expectedGrowth :
        IF XGt(expectedGrowth, Fin(0)) THEN XMin(expectedGrowth, maxChange)
        ELSE XMax(expectedGrowth, XNeg(maxChange)))

\* trend.dailyGrowthRate + scenario.netFlowBias * maxDailyChange * 0.1
BiasedGrowth(run) ==
    XAdd(run.trend.dailyGrowthRate,
         XMul(XMul(Fin(run.scenario.netFlowBias), run.maxDailyChange, Scale),
              Fin(Scale \div 10), Scale))

\* confidenceMultiplier * uncertaintyGrowth, with
\* uncertaintyGrowth = Math.sqrt(daysFromStart) * trend.volatility * 32
ConfidenceBand(d, run) ==
    XMul(Fin(ConfidenceMultiplierX100),
         XMul(SqrtOfInt(d), XMul(run.trend.volatility, Fin(EthPerValidator), 1), Scale),
         100)

\* The ForecastPoint that a pass of the day loop pushes
ForecastPoint(d, run, newStake, expectedGrowth, band, drivers) ==
    [date           |-> run.latestState.timestamp + d,
     totalStakedETH |-> newStake,
     stakeRatio     |-> getStakeRatio(newStake),
     forecastAPR    |-> drivers.totalAPR,
     confidence     |-> [lower |-> XMax(Fin(0), XSub(newStake, band)),
                         upper |-> XAdd(newStake, band)],
     components     |-> [protocolBase    |-> drivers.consensusAPR,
                         trendAdjustment |-> expectedGrowth,
                         queueConstraint |-> run.maxDailyChange],
     drivers        |-> drivers]

\* "Update state" and "Decay queues based on churn": the values that the loop
\* carries into its next pass, with the point pushed in this pass
CarriedOn(st, newStake, newValidators, dailyChurn, point) ==
    [currentStake      |-> newStake,
     currentValidators |-> newValidators,
     currentEntryQueue |-> XMax(Fin(0), XSub(st.currentEntryQueue, dailyChurn)),
     currentExitQueue  |-> XMax(Fin(0), XSub(st.currentExitQueue, dailyChurn)),
     point             |-> point]

\* A second half of a pass in which the net queue flow
\* (currentEntryQueue - currentExitQueue) * 32 adds to the expected growth
GrowWithQueueFlow(d, st, run, drivers) ==
    Bind(ConstrainGrowth(XAdd(applyAPRFeedback(BiasedGrowth(run), drivers.totalAPR),
                              XMul(XSub(st.currentEntryQueue, st.currentExitQueue),
                                   Fin(EthPerValidator), 1)),
                         run.maxDailyChange),
         LAMBDA expectedGrowth :
            Bind(XMax(Fin(0), XAdd(st.currentStake, expectedGrowth)), LAMBDA newStake :
                Bind(XFloorDiv(newStake, EthPerValidator), LAMBDA newValidators :
                    CarriedOn(st, newStake, newValidators,
                              XMul(getChurnLimit(newValidators), Fin(EPOCHS_PER_DAY), 1),
                              ForecastPoint(d, run, newStake, expectedGrowth,
                                            ConfidenceBand(d, run), drivers)))))

\* The second half of a pass, from the drivers of the day
GrowAndPush(d, st, run, drivers) ==
    Bind(ConstrainGrowth(applyAPRFeedback(BiasedGrowth(run), drivers.totalAPR),
                         run.maxDailyChange),
         LAMBDA expectedGrowth :
            Bind(XMax(Fin(0), XAdd(st.currentStake, expectedGrowth)), LAMBDA newStake :
                Bind(XFloorDiv(newStake, EthPerValidator), LAMBDA newValidators :
                    CarriedOn(st, newStake, newValidators,
                              XMul(getChurnLimit(newValidators), Fin(EPOCHS_PER_DAY), 1),
                              ForecastPoint(d, run, newStake, expectedGrowth,
                                            ConfidenceBand(d, run), drivers)))))

\* A pass of the loop that calls forecastExecutionYield with the regime
\* 'calm', whatever the base regime of the run
ForecastDayFromCalmRegime(d, st, run) ==
    Bind2(getTheoreticalAPR(st.currentStake),
          forecastExecutionYield(run.currentExecYield, "calm", d, st.currentValidators),
          LAMBDA consensusAPR, execForecast :
             Bind(XMul(execForecast.annualizedAPR, Fin(run.scenario.mevMultiplier), Scale),
                  LAMBDA adjustedExecAPR :
                     Bind(XAdd(consensusAPR, adjustedExecAPR), LAMBDA totalAPR :
                         Bind(Drivers(consensusAPR, adjustedExecAPR, totalAPR, execForecast,
                                      XDiv(adjustedExecAPR, totalAPR, 100 * PctScale)),
                              LAMBDA drivers : GrowAndPush(d, st, run, drivers)))))

\* One pass of the loop "for (let day = 1; day <= daysToForecast; day++)" of
\* generateForecast, from the values that the loop carries (st) and the values
\* fixed before the loop (run): the carried values after the pass and the
\* ForecastPoint that it pushes.
ForecastDay(d, st, run) ==
    Bind2(getTheoreticalAPR(st.currentStake),
          forecastExecutionYield(run.currentExecYield, run.baseRegime, d, st.currentValidators),
          LAMBDA consensusAPR, execForecast :
             Bind(XMul(execForecast.annualizedAPR, Fin(run.scenario.mevMultiplier), Scale),
                  LAMBDA adjustedExecAPR :
                     Bind(XAdd(consensusAPR, adjustedExecAPR), LAMBDA totalAPR :
                         Bind(Drivers(consensusAPR, adjustedExecAPR, totalAPR, execForecast,
                                      XDiv(adjustedExecAPR, totalAPR, 100 * PctScale)),
                              LAMBDA drivers : GrowAndPush(d, st, run, drivers)))))

\* A filter that keeps the point of every day
EveryDaySnapshot(i, length) == TRUE

\* The predicate of the final filter on the i-th pushed point (i counted from 1)
\* of a list of the given length: (i0 + 1) % 30 === 0 || i0 === length - 1
IsMonthlySnapshot(i, length) == i % DaysPerMonth = 0 \/ i = length

\* forecasts.filter(...)
MonthlySnapshots(points) ==
    Bind(SelectSeq([i \in 1..Len(points) |-> i], LAMBDA i : IsMonthlySnapshot(i, Len(points))),
         LAMBDA kept : Eager([k \in 1..Len(kept) |-> points[kept[k]]]))

(***************************************************************************)
(* Inputs of the caller                                                    *)
(***************************************************************************)
HPoint(timestamp, totalStakedETH, activeValidators, entryQueueLength, exitQueueLength) ==
    [timestamp |-> timestamp, totalStakedETH |-> totalStakedETH,
     activeValidators |-> activeValidators, entryQueueLength |-> entryQueueLength,
     exitQueueLength |-> exitQueueLength]

EPoint(timestamp, priorityFeesETH, mevRewardsETH) ==
    [timestamp |-> timestamp, priorityFeesETH |-> priorityFeesETH,
     mevRewardsETH |-> mevRewardsETH]

\* Three daily observations of a network that grows by 35873 ETH a day (about
\* 1121 validators), oldest first
GrowingHistory ==
    <<HPoint(1, 34500000, 1075883, 2100, 600),
      HPoint(2, 34535873, 1077004, 2300, 700),
      HPoint(3, 34571746, 1078125, 2500, 800)>>

\* The same observations listed in another order
ShuffledHistory == <<GrowingHistory[3], GrowingHistory[1], GrowingHistory[2]>>

\* One observation of a network without active validators
IdleHistory == <<HPoint(3, 0, 0, 0, 0)>>

\* Three daily observations of a network that shrinks by 50000 and then by
\* 40000 ETH a day, with 328125 validators on the latest day: just above 5 *
\* CHURN_LIMIT_QUOTIENT = 327680
ShrinkingHistory ==
    <<HPoint(1, 10590000, 330937, 0, 3000),
      HPoint(2, 10540000, 329375, 0, 3500),
      HPoint(3, 10500000, 328125, 0, 4000)>>

\* The histories that the caller starts from, and those that it can pass after
\* listing the elements in another order
Histories == {<<>>, GrowingHistory, ShrinkingHistory, IdleHistory}

ReorderedHistories == Histories \cup {ShuffledHistory}

\* One day of execution rewards of 0.1 ETH per validator (at 1078125 validators)
HotExecution == <<EPoint(3, 43125, 64688)>>

\* Eight days of execution rewards, oldest first: 0.003 ETH per validator on
\* the first day and 0.0005 ETH per validator on the seven days after it
WeekExecution ==
    [k \in 1..8 |-> IF k = 1 THEN EPoint(k, 1294, 1941) ELSE EPoint(k, 216, 323)]

\* The same eight days, newest first
WeekExecutionNewestFirst == [k \in 1..8 |-> WeekExecution[9 - k]]

\* The optional argument executionHistory: left out (undefined) or a list
NoExecutionHistory == [defined |-> FALSE, value |-> <<>>]

Given(list) == [defined |-> TRUE, value |-> list]

ExecutionInputs ==
    {NoExecutionHistory, Given(<<>>), Given(HotExecution), Given(WeekExecution)}

ReorderedExecutionInputs == ExecutionInputs \cup {Given(WeekExecutionNewestFirst)}

\* Two lists of points with pairwise distinct timestamps hold the same elements
IsPermutation(a, b) ==
    /\ Len(a) = Len(b)
    /\ {a[i] : i \in 1..Len(a)} = {b[i] : i \in 1..Len(b)}

(***************************************************************************)
(* The engine as a state machine.  The caller calls generateForecast with  *)
(* one scenario, or compareScenarios, which calls generateForecast three   *)
(* times; a call of generateForecast is at "call" before its first         *)
(* statement, at "loop" between two passes of its day loop, and the whole  *)
(* call of the caller ends "returned" or "thrown".                         *)
(***************************************************************************)
VARIABLES
    entry,              \* the function that the caller called
    history,            \* argument history
    executionHistory,   \* argument executionHistory
    monthsAhead,        \* argument monthsAhead
    slot,               \* the scenario that the running generateForecast is for
    pending,            \* the scenarios that compareScenarios has yet to run
    scenario,           \* argument scenario of the running generateForecast
    pc,
    error,              \* the message of the exception thrown, "" if none
    latestState,        \* locals of generateForecast ...
    trend,
    queuePressure,
    maxDailyChange,
    execHistory,
    regimeDetection,
    baseRegime,
    currentExecYield,
    day,                \* the last day that the loop has completed
    currentStake,
    currentValidators,
    currentEntryQueue,
    currentExitQueue,
    forecasts,
    results,            \* per scenario, what its generateForecast returned
    previous,           \* the arguments and results of the caller's call before this one
    calls,              \* the number of calls that the caller has made
    probe               \* a call of a function of protocol.ts on its own

args == <<entry, history, executionHistory, monthsAhead>>

setup == <<latestState, trend, queuePressure, maxDailyChange, execHistory, regimeDetection,
           baseRegime, currentExecYield>>

carried == <<day, currentStake, currentValidators, currentEntryQueue, currentExitQueue, forecasts>>

vars == <<args, slot, pending, scenario, pc, error, setup, carried, results, previous, calls,
         probe>>

NoState == HPoint(0, 0, 0, 0, 0)

\* No call of a protocol function on its own
NoProbe ==
    [pc |-> "idle", fn |-> "none", stakeA |-> 0, stakeB |-> 0,
     aprA |-> Ratio(0, 1), aprB |-> Ratio(0, 1), targetAPR |-> Ratio(0, 1), equilibrium |-> 0,
     validatorsA |-> 0, validatorsB |-> 0, churnA |-> Fin(0), churnB |-> Fin(0)]

NoResult == [returned |-> FALSE, points |-> <<>>, execHistory |-> <<>>,
             scenario |-> DEFAULT_SCENARIO]

NoResults == [s \in {"baseline", "bullish", "bearish"} |-> NoResult]

NoPrevious == [made |-> FALSE, history |-> <<>>, executionHistory |-> NoExecutionHistory,
               results |-> NoResults]

\* The caller's calls: generateForecast with one of the presets, or compareScenarios
EntryPoints ==
    {[entry |-> "generateForecast", scenarios |-> <<s>>] : s \in {"baseline", "bullish", "bearish"}}
    \cup {[entry |-> "compareScenarios", scenarios |-> ScenarioOrder]}

Init ==
    /\ \E e \in EntryPoints :
          /\ entry = e.entry
          /\ slot = Head(e.scenarios)
          /\ pending = Tail(e.scenarios)
          /\ scenario = ScenarioOf[Head(e.scenarios)]
    /\ history \in Histories
    /\ executionHistory \in ExecutionInputs
    /\ monthsAhead \in 1..MaxMonths
    /\ pc = "call"
    /\ error = ""
    /\ latestState = NoState
    /\ trend = [dailyGrowthRate |-> Fin(0), volatility |-> Fin(0)]
    /\ queuePressure = Fin(0)
    /\ maxDailyChange = Fin(0)
    /\ execHistory = <<>>
    /\ regimeDetection = DefaultDetection
    /\ baseRegime = "calm"
    /\ currentExecYield = Fin(0)
    /\ day = 0
    /\ currentStake = Fin(0)
    /\ currentValidators = Fin(0)
    /\ currentEntryQueue = Fin(0)
    /\ currentExitQueue = Fin(0)
    /\ forecasts = <<>>
    /\ results = NoResults
    /\ previous = NoPrevious
    /\ calls = 1
    /\ probe = NoProbe

\* A guard that lets every history through
HistoryNeverEmpty(h) == FALSE

\* history.length === 0
HistoryIsEmpty(h) == Len(h) = 0

\* The number of days of the mock history, generateMockExecutionHistory(90, ...)
MockHistoryDays == 90

\* currentExecYield: the mean yield of execHistory.slice(0, 7), or 0.001
CurrentExecYield(list, activeValidators) ==
    Bind(Slice(list, RecentWindow), LAMBDA recentExec :
        IF Len(recentExec) > 0 THEN Mean(Yields(recentExec, activeValidators))
        ELSE Fin(Scale \div 1000))

\* generateForecast throws on an empty history, before anything else
ThrowEmptyHistory ==
    /\ pc = "call"
    /\ HistoryIsEmpty(history)
    /\ pc' = "thrown"
    /\ error' = "No historical data provided"
    /\ UNCHANGED <<args, slot, pending, scenario, setup, carried, results, previous, calls>>
    /\ UNCHANGED probe

\* generateForecast from its first statement to the head of the day loop.  An
\* execution history that was left out is replaced by a mock history, drawn
\* anew in every call.  (sortedHistory[0] of an empty list is undefined, and
\* reading a property of undefined throws a TypeError.)
BeginForecast ==
    /\ pc = "call"
    /\ ~HistoryIsEmpty(history)
    /\ \E sortedHistory \in {SortDesc(history)} :
          IF Len(sortedHistory) = 0
          THEN /\ pc' = "thrown"
               /\ error' = "TypeError"
               /\ UNCHANGED <<setup, carried>>
          ELSE \E latest \in {sortedHistory[1]} :
               \E used \in (IF executionHistory.defined
                            THEN {executionHistory.value}
                            ELSE generateMockExecutionHistory(MockHistoryDays,
                                                              latest.activeValidators)) :
               \E detection \in {detectRegime(used, Fin(latest.activeValidators))} :
                  /\ latestState' = latest
                  /\ trend' = calculateStakingTrend(history)
                  /\ queuePressure' =
                        calculateQueuePressure(
                            XMul(Fin(latest.entryQueueLength), Fin(scenario.queuePressure), Scale),
                            XMul(Fin(latest.exitQueueLength), Fin(scenario.queuePressure), Scale),
                            Fin(latest.activeValidators))
                  /\ maxDailyChange' = getMaxDailyStakeChange(Fin(latest.activeValidators))
                  /\ execHistory' = used
                  /\ regimeDetection' = detection
                  /\ baseRegime' = IF scenario.feeRegimeBias = "current"
                                   THEN detection.currentRegime
                                   ELSE scenario.feeRegimeBias
                  /\ currentExecYield' = CurrentExecYield(used, Fin(latest.activeValidators))
                  /\ day' = 0
                  /\ currentStake' = Fin(latest.totalStakedETH)
                  /\ currentValidators' = Fin(latest.activeValidators)
                  /\ currentEntryQueue' = Fin(latest.entryQueueLength)
                  /\ currentExitQueue' = Fin(latest.exitQueueLength)
                  /\ forecasts' = <<>>
                  /\ pc' = "loop"
                  /\ error' = ""
    /\ UNCHANGED <<args, slot, pending, scenario, results, previous, calls>>
    /\ UNCHANGED probe

\* daysToForecast = monthsAhead * 30
DaysToForecast == monthsAhead * DaysPerMonth

\* One pass of the day loop
SimulateDay ==
    /\ pc = "loop"
    /\ day + 1 <= DaysToForecast
    /\ \E next \in {ForecastDay(day + 1,
                                [currentStake |-> currentStake,
                                 currentValidators |-> currentValidators,
                                 currentEntryQueue |-> currentEntryQueue,
                                 currentExitQueue |-> currentExitQueue],
                                [latestState |-> latestState, trend |-> trend,
                                 maxDailyChange |-> maxDailyChange, baseRegime |-> baseRegime,
                                 currentExecYield |-> currentExecYield, scenario |-> scenario])} :
          /\ day' = day + 1
          /\ currentStake' = next.currentStake
          /\ currentValidators' = next.currentValidators
          /\ currentEntryQueue' = next.currentEntryQueue
          /\ currentExitQueue' = next.currentExitQueue
          /\ forecasts' = Append(forecasts, next.point)
    /\ UNCHANGED <<args, slot, pending, scenario, pc, error, setup, results, previous, calls>>
    /\ UNCHANGED probe

\* The loop is over: generateForecast returns the monthly snapshots; the
\* caller is done, or compareScenarios goes on to its next scenario
ReturnForecast ==
    /\ pc = "loop"
    /\ day + 1 > DaysToForecast
    /\ results' = [results EXCEPT ![slot] =
                      [returned |-> TRUE, points |-> MonthlySnapshots(forecasts),
                       execHistory |-> execHistory, scenario |-> scenario]]
    /\ IF pending = <<>>
       THEN pc' = "returned" /\ UNCHANGED <<slot, pending, scenario>>
       ELSE /\ pc' = "call"
            /\ slot' = Head(pending)
            /\ pending' = Tail(pending)
            /\ scenario' = ScenarioOf[Head(pending)]
    /\ UNCHANGED <<args, error, setup, carried, previous, calls>>
    /\ UNCHANGED probe

\* The caller calls generateForecast again on the same data and scenario, with
\* the elements of history or of executionHistory listed in another order
CallPermuted ==
    /\ pc = "returned"
    /\ entry = "generateForecast"
    /\ calls < MaxCalls
    /\ \E h \in ReorderedHistories, e \in ReorderedExecutionInputs :
          /\ IsPermutation(h, history)
          /\ e.defined = executionHistory.defined
          /\ IsPermutation(e.value, executionHistory.value)
          /\ <<h, e>> # <<history, executionHistory>>
          /\ history' = h
          /\ executionHistory' = e
    /\ previous' = [made |-> TRUE, history |-> history, executionHistory |-> executionHistory,
                    results |-> results]
    /\ results' = NoResults
    /\ calls' = calls + 1
    /\ pc' = "call"
    /\ UNCHANGED <<entry, monthsAhead, slot, pending, scenario, error, setup, carried>>
    /\ UNCHANGED probe

Next ==
    \/ ThrowEmptyHistory
    \/ BeginForecast
    \/ SimulateDay
    \/ ReturnForecast
    \/ CallPermuted

Spec == Init /\ [][Next]_vars

(***************************************************************************)
(* The functions of protocol.ts called on their own.  The caller draws the *)
(* arguments: two stakes (in tenths of an ETH) for getTheoreticalAPR,      *)
(* whose first result it then passes to getEquilibriumStakeForAPR; a       *)
(* target APR for getEquilibriumStakeForAPR; two validator counts for      *)
(* getChurnLimit.                                                          *)
(***************************************************************************)
\* Stakes from a tenth of an ETH to 100 million ETH, some a tenth of an ETH and
\* some one ETH apart
StakeSamples ==
    {1, 10, 320, 321, 345000000, 345000001, 345000010, 1000000000, 1000000001, 1000000010}

\* Target APRs: zero, a negative one, and 10%
TargetSamples == {Ratio(0, 1), Ratio(0 - 1, 1), Ratio(1, 10)}

\* Validator counts around the multiples of CHURN_LIMIT_QUOTIENT
ValidatorSamples ==
    {0, 1, 65535, 65536, 262143, 262144, 327679, 327680, 1078125, 2000000}

InitProtocol ==
    /\ entry = "none"
    /\ slot = "baseline"
    /\ pending = <<>>
    /\ scenario = DEFAULT_SCENARIO
    /\ history = <<>>
    /\ executionHistory = NoExecutionHistory
    /\ monthsAhead = 1
    /\ pc = "idle"
    /\ error = ""
    /\ latestState = NoState
    /\ trend = [dailyGrowthRate |-> Fin(0), volatility |-> Fin(0)]
    /\ queuePressure = Fin(0)
    /\ maxDailyChange = Fin(0)
    /\ execHistory = <<>>
    /\ regimeDetection = DefaultDetection
    /\ baseRegime = "calm"
    /\ currentExecYield = Fin(0)
    /\ day = 0
    /\ currentStake = Fin(0)
    /\ currentValidators = Fin(0)
    /\ currentEntryQueue = Fin(0)
    /\ currentExitQueue = Fin(0)
    /\ forecasts = <<>>
    /\ results = NoResults
    /\ previous = NoPrevious
    /\ calls = 1
    /\ \/ \E a \in StakeSamples, b \in StakeSamples :
             probe = [NoProbe EXCEPT !.pc = "call", !.fn = "getTheoreticalAPR",
                                     !.stakeA = a, !.stakeB = b]
       \/ \E target \in TargetSamples :
             probe = [NoProbe EXCEPT !.pc = "call", !.fn = "getEquilibriumStakeForAPR",
                                     !.targetAPR = target]
       \/ \E a \in ValidatorSamples, b \in ValidatorSamples :
             probe = [NoProbe EXCEPT !.pc = "call", !.fn = "getChurnLimit",
                                     !.validatorsA = a, !.validatorsB = b]

forecastVars == <<args, slot, pending, scenario, pc, error, setup, carried, results, previous,
                  calls>>

\* getTheoreticalAPR on each of the two stakes
CallTheoreticalAPR ==
    /\ probe.pc = "call"
    /\ probe.fn = "getTheoreticalAPR"
    /\ probe' = [probe EXCEPT !.aprA = TheoreticalAPRRatio(probe.stakeA),
                              !.aprB = TheoreticalAPRRatio(probe.stakeB),
                              !.pc = "apr"]
    /\ UNCHANGED forecastVars

\* getEquilibriumStakeForAPR on the target drawn, or on the APR of the first stake
CallEquilibriumStake ==
    /\ \/ probe.pc = "call" /\ probe.fn = "getEquilibriumStakeForAPR"
       \/ probe.pc = "apr"
    /\ \E target \in {IF probe.pc = "apr" THEN probe.aprA ELSE probe.targetAPR} :
          probe' = [probe EXCEPT !.targetAPR = target,
                                 !.equilibrium = getEquilibriumStakeForAPR(target),
                                 !.pc = "returned"]
    /\ UNCHANGED forecastVars

\* getChurnLimit on each of the two validator counts
CallChurnLimit ==
    /\ probe.pc = "call"
    /\ probe.fn = "getChurnLimit"
    /\ probe' = [probe EXCEPT !.churnA = getChurnLimit(Fin(probe.validatorsA)),
                              !.churnB = getChurnLimit(Fin(probe.validatorsB)),
                              !.pc = "returned"]
    /\ UNCHANGED forecastVars

NextProtocol ==
    \/ CallTheoreticalAPR
    \/ CallEquilibriumStake
    \/ CallChurnLimit

SpecProtocol == InitProtocol /\ [][NextProtocol]_vars

(***************************************************************************)
(* generateForecast called twice on inputs that differ in the queues only: *)
(* the caller calls it with one of the presets on a history and an         *)
(* execution history, then once more with other queue lengths in every     *)
(* point of the history and another scenario.queuePressure.                *)
(***************************************************************************)
\* Queue lengths for every point of the history, and a queuePressure (unit 1/Scale)
QueueVariants ==
    {[entryQueueLength |-> 0, exitQueueLength |-> 0, queuePressure |-> 0],
     [entryQueueLength |-> 20000, exitQueueLength |-> 100, queuePressure |-> 2 * Scale],
     [entryQueueLength |-> 500, exitQueueLength |-> 90000, queuePressure |-> Scale \div 4]}

\* The history with the queue lengths of a variant in every point
WithQueues(list, variant) ==
    [i \in 1..Len(list) |->
        [list[i] EXCEPT !.entryQueueLength = variant.entryQueueLength,
                        !.exitQueueLength = variant.exitQueueLength]]

InitQueues ==
    /\ entry = "generateForecast"
    /\ slot \in {"baseline", "bullish", "bearish"}
    /\ pending = <<>>
    /\ scenario = ScenarioOf[slot]
    /\ history \in {GrowingHistory, ShrinkingHistory}
    /\ executionHistory \in {Given(HotExecution), Given(WeekExecution)}
    /\ monthsAhead \in 1..MaxMonths
    /\ pc = "call"
    /\ error = ""
    /\ latestState = NoState
    /\ trend = [dailyGrowthRate |-> Fin(0), volatility |-> Fin(0)]
    /\ queuePressure = Fin(0)
    /\ maxDailyChange = Fin(0)
    /\ execHistory = <<>>
    /\ regimeDetection = DefaultDetection
    /\ baseRegime = "calm"
    /\ currentExecYield = Fin(0)
    /\ day = 0
    /\ currentStake = Fin(0)
    /\ currentValidators = Fin(0)
    /\ currentEntryQueue = Fin(0)
    /\ currentExitQueue = Fin(0)
    /\ forecasts = <<>>
    /\ results = NoResults
    /\ previous = NoPrevious
    /\ calls = 1
    /\ probe = NoProbe

\* The caller calls generateForecast again on the same data, with other queue
\* lengths in the history and another queuePressure in the scenario
CallWithOtherQueues ==
    /\ pc = "returned"
    /\ calls < MaxCalls
    /\ \E variant \in QueueVariants :
          /\ history' = WithQueues(history, variant)
          /\ scenario' = [scenario EXCEPT !.queuePressure = variant.queuePressure]
          /\ history' # history
          /\ scenario' # scenario
    /\ previous' = [made |-> TRUE, history |-> history, executionHistory |-> executionHistory,
                    results |-> results]
    /\ results' = NoResults
    /\ calls' = calls + 1
    /\ pc' = "call"
    /\ UNCHANGED <<entry, executionHistory, monthsAhead, slot, pending, error, setup, carried>>
    /\ UNCHANGED probe

NextQueues ==
    \/ BeginForecast
    \/ SimulateDay
    \/ ReturnForecast
    \/ CallWithOtherQueues

SpecQueues == InitQueues /\ [][NextQueues]_vars

(***************************************************************************)
(* The functions of execution.ts and forecast.ts called on their own: a    *)
(* caller calls one of them once on arguments drawn from samples and       *)
(* keeps the result.                                                       *)
(***************************************************************************)
\* Current yields in ETH per validator per day (unit 1/Scale): 0.0005, 0.0025
YieldSamples == {Fin(500), Fin(2500)}

\* The forecast state of a caller that never calls generateForecast
IdleForecast ==
    /\ entry = "none"
    /\ slot = "baseline"
    /\ pending = <<>>
    /\ scenario = DEFAULT_SCENARIO
    /\ history = <<>>
    /\ executionHistory = NoExecutionHistory
    /\ monthsAhead = 1
    /\ pc = "idle"
    /\ error = ""
    /\ latestState = NoState
    /\ trend = [dailyGrowthRate |-> Fin(0), volatility |-> Fin(0)]
    /\ queuePressure = Fin(0)
    /\ maxDailyChange = Fin(0)
    /\ execHistory = <<>>
    /\ regimeDetection = DefaultDetection
    /\ baseRegime = "calm"
    /\ currentExecYield = Fin(0)
    /\ day = 0
    /\ currentStake = Fin(0)
    /\ currentValidators = Fin(0)
    /\ currentEntryQueue = Fin(0)
    /\ currentExitQueue = Fin(0)
    /\ forecasts = <<>>
    /\ results = NoResults
    /\ previous = NoPrevious
    /\ calls = 1

\* The calls of forecastExecutionYield that the caller may make
ForecastYieldCalls ==
    {[pc |-> "call", fn |-> "forecastExecutionYield", currentYield |-> y,
      currentRegime |-> r, daysAhead |-> d] :
        y \in YieldSamples, r \in FeeRegime, d \in 0..Horizon}

\* Seven days of execution rewards in no order of time: 0.0005 ETH per
\* validator (at 1078125 validators) on every day but day 5, which has 0.0015
InterruptedExecution ==
    <<EPoint(3, 216, 323), EPoint(7, 216, 323), EPoint(5, 647, 970), EPoint(1, 216, 323),
      EPoint(6, 216, 323), EPoint(2, 216, 323), EPoint(4, 216, 323)>>

\* The execution histories that detectRegime is called on
ExecutionSamples ==
    {<<>>, HotExecution, WeekExecution, WeekExecutionNewestFirst, InterruptedExecution}

\* The calls of detectRegime that the caller may make
DetectRegimeCalls ==
    {[pc |-> "call", fn |-> "detectRegime", history |-> h, activeValidators |-> v] :
        h \in ExecutionSamples, v \in {0, 1078125, 2000000}}

\* Yields per validator per day (unit 1/Scale) at and next to the two
\* thresholds, a negative one, and the values that a division by zero leaves
ClassifiedSamples ==
    {Fin(0 - 500), Fin(0), Fin(999), Fin(1000), Fin(1001), Fin(2999), Fin(3000), Fin(3001),
     Fin(100000), NaN, PInf, NInf}

\* The calls of classifyYield that the caller may make
ClassifyYieldCalls ==
    {[pc |-> "call", fn |-> "classifyYield", yieldPerValidator |-> y] : y \in ClassifiedSamples}

\* A point of a small history: stake only
SmallPoint(timestamp, totalStakedETH) == HPoint(timestamp, totalStakedETH, 0, 0, 0)

\* Histories of up to four points for calculateStakingTrend, in no order of
\* time: none or one point; two or three points of one and the same time; two
\* points a day apart; three points of which two have the same time; three and
\* four points of different days; a flat history
TrendSamples ==
    {<<>>,
     <<SmallPoint(1, 100)>>,
     <<SmallPoint(1, 100), SmallPoint(1, 130)>>,
     <<SmallPoint(2, 130), SmallPoint(2, 100), SmallPoint(2, 190)>>,
     <<SmallPoint(2, 130), SmallPoint(1, 100)>>,
     <<SmallPoint(3, 190), SmallPoint(1, 100), SmallPoint(1, 130)>>,
     <<SmallPoint(3, 190), SmallPoint(1, 100), SmallPoint(2, 130)>>,
     <<SmallPoint(1, 100), SmallPoint(2, 130), SmallPoint(2, 150), SmallPoint(4, 110)>>,
     <<SmallPoint(1, 100), SmallPoint(2, 100), SmallPoint(3, 100)>>}

\* The calls of calculateStakingTrend that the caller may make
StakingTrendCalls ==
    {[pc |-> "call", fn |-> "calculateStakingTrend", history |-> h] : h \in TrendSamples}

\* Base growth rates in ETH per day, and current APRs in percent (unit
\* 1/PctScale) below, at and above the target of 4
GrowthSamples == {Fin(0 - 45000), Fin(0 - 1000), Fin(0), Fin(1000), Fin(35873)}

APRSamples == {Fin(0), Fin(2 * PctScale), Fin(4 * PctScale), Fin(6 * PctScale),
               Fin(20 * PctScale)}

\* The calls of applyAPRFeedback, with its default targetAPR, that the caller
\* may make
APRFeedbackCalls ==
    {[pc |-> "call", fn |-> "applyAPRFeedback", baseGrowthRate |-> g, currentAPR |-> a] :
        g \in GrowthSamples, a \in APRSamples}

InitFunctions ==
    /\ IdleForecast
    /\ probe \in ForecastYieldCalls \cup DetectRegimeCalls \cup ClassifyYieldCalls
                 \cup StakingTrendCalls \cup APRFeedbackCalls

\* The call returns: the caller keeps the result
Returned(call, result) ==
    [pc |-> "returned", fn |-> call.fn, call |-> call, result |-> result]

\* forecastExecutionYield(currentYield, currentRegime, daysAhead, activeValidators)
CallForecastExecutionYield ==
    /\ probe.pc = "call"
    /\ probe.fn = "forecastExecutionYield"
    /\ probe' = Returned(probe, forecastExecutionYield(probe.currentYield, probe.currentRegime,
                                                       probe.daysAhead, Fin(1078125)))
    /\ UNCHANGED forecastVars

\* detectRegime(history, activeValidators)
CallDetectRegime ==
    /\ probe.pc = "call"
    /\ probe.fn = "detectRegime"
    /\ probe' = Returned(probe, detectRegime(probe.history, Fin(probe.activeValidators)))
    /\ UNCHANGED forecastVars

\* classifyYield(yieldPerValidator)
CallClassifyYield ==
    /\ probe.pc = "call"
    /\ probe.fn = "classifyYield"
    /\ probe' = Returned(probe, classifyYield(probe.yieldPerValidator))
    /\ UNCHANGED forecastVars

\* calculateStakingTrend(history)
CallStakingTrend ==
    /\ probe.pc = "call"
    /\ probe.fn = "calculateStakingTrend"
    /\ probe' = Returned(probe, StakingTrendResult(probe.history))
    /\ UNCHANGED forecastVars

\* applyAPRFeedback(baseGrowthRate, currentAPR)
CallApplyAPRFeedback ==
    /\ probe.pc = "call"
    /\ probe.fn = "applyAPRFeedback"
    /\ probe' = Returned(probe, applyAPRFeedback(probe.baseGrowthRate, probe.currentAPR))
    /\ UNCHANGED forecastVars

NextFunctions ==
    \/ CallForecastExecutionYield
    \/ CallDetectRegime
    \/ CallClassifyYield
    \/ CallStakingTrend
    \/ CallApplyAPRFeedback

SpecFunctions == InitFunctions /\ [][NextFunctions]_vars

(***************************************************************************)
(* Properties                                                              *)
(***************************************************************************)
\* The largest timestamp of the history that was passed
LatestTimestamps ==
    {m \in {history[i].timestamp : i \in 1..Len(history)} :
        \A i \in 1..Len(history) : history[i].timestamp <= m}

\* |x - y| <= tolerance, for two finite numbers of the same unit
XClose(x, y, tolerance) == IsFin(x) /\ IsFin(y) /\ Abs(x.v - y.v) <= tolerance

ScenarioNames == {"baseline", "bullish", "bearish"}

\* C1: generateForecast on an empty history raises "No historical data
\* provided" before any simulation step: no day is simulated, no point is
\* pushed and no list of points is returned, for every monthsAhead and every
\* scenario.
C1_EmptyHistoryRaises ==
    (history = <<>> /\ pc # "call") =>
        /\ pc = "thrown"
        /\ error = "No historical data provided"
        /\ day = 0
        /\ forecasts = <<>>
        /\ \A s \in ScenarioNames : ~results[s].returned /\ results[s].points = <<>>

C1_EmptyHistoryThrown ==
    /\ history = <<>>
    /\ pc = "thrown"
    /\ entry = "generateForecast"
    /\ slot = "bearish"
    /\ monthsAhead = MaxMonths

\* C2: on a non-empty history generateForecast simulates the days
\* 1..monthsAhead*30 in order, the point of day i carrying the latest
\* historical timestamp plus i days, and returns exactly monthsAhead points,
\* those of the days 30, 60, ..., monthsAhead*30, with strictly increasing
\* dates.
C2_MonthlyPoints ==
    (history # <<>> /\ pc \in {"loop", "returned"}) =>
        \A latest \in LatestTimestamps :
            /\ day <= monthsAhead * 30
            /\ Len(forecasts) = day
            /\ \A i \in 1..Len(forecasts) : forecasts[i].date = latest + i
            /\ \A s \in ScenarioNames :
                  results[s].returned =>
                      /\ Len(results[s].points) = monthsAhead
                      /\ \A k \in 1..monthsAhead :
                            results[s].points[k].date = latest + 30 * k
                      /\ \A k \in 1..(monthsAhead - 1) :
                            results[s].points[k].date < results[s].points[k + 1].date
            /\ pc = "returned" =>
                  /\ day = monthsAhead * 30
                  /\ results[slot].returned
                  /\ results[slot].points = [k \in 1..monthsAhead |-> forecasts[30 * k]]

C2_TwoMonthsReturned ==
    /\ history = ShuffledHistory
    /\ pc = "returned"
    /\ monthsAhead = 2
    /\ day = 60
    /\ Len(results[slot].points) = 2
    /\ results[slot].points[2].date = 63

\* C3: with a non-negative growth trend the three forecasts of
\* compareScenarios are ordered at every matched date, bullish >= baseline >=
\* bearish in totalStakedETH (here for a given execution history and a positive
\* validator count, and up to 1000 ETH).
C3_ScenariosOrdered ==
    (/\ entry = "compareScenarios"
     /\ pc = "returned"
     /\ executionHistory.defined
     /\ latestState.activeValidators > 0
     /\ XGe(trend.dailyGrowthRate, Fin(0))) =>
        \A k \in 1..monthsAhead :
            /\ results["bullish"].points[k].date = results["baseline"].points[k].date
            /\ results["bearish"].points[k].date = results["baseline"].points[k].date
            /\ XGe(XAdd(results["bullish"].points[k].totalStakedETH, Fin(1000)),
                   results["baseline"].points[k].totalStakedETH)
            /\ XGe(XAdd(results["baseline"].points[k].totalStakedETH, Fin(1000)),
                   results["bearish"].points[k].totalStakedETH)

\* C4: in every generated point, under each of the three presets,
\* priorityFeesPct + mevPct equals executionPct (here for a positive validator
\* count, and up to half a percentage point).
C4_ExecutionSplitSums ==
    (pc \in {"loop", "returned"} /\ latestState.activeValidators > 0) =>
        \A i \in 1..Len(forecasts) :
            XClose(XAdd(forecasts[i].drivers.priorityFeesPct, forecasts[i].drivers.mevPct),
                   forecasts[i].drivers.executionPct, PctScale \div 2)

\* C5: in every generated point with totalAPR > 0, consensusPct + executionPct
\* equals 100 (up to a hundredth of a percentage point) and totalAPR equals
\* consensusAPR + executionAPR.
C5_SharesSumTo100 ==
    pc \in {"loop", "returned"} =>
        \A i \in 1..Len(forecasts) :
            XGt(forecasts[i].drivers.totalAPR, Fin(0)) =>
                /\ XClose(XAdd(forecasts[i].drivers.consensusPct,
                               forecasts[i].drivers.executionPct),
                          Fin(100 * PctScale), PctScale \div 100)
                /\ forecasts[i].drivers.totalAPR =
                      XAdd(forecasts[i].drivers.consensusAPR, forecasts[i].drivers.executionAPR)

\* C6: the three simulations of one call of compareScenarios run on the same
\* execution history, also when the caller passes none, and under exactly the
\* presets {0, 1.0, 1.0, current}, {0.5, 1.3, 1.5, elevated} and
\* {-0.5, 0.7, 0.5, calm}.
C6_SameInputs ==
    (entry = "compareScenarios" /\ pc = "returned") =>
        /\ \A s \in ScenarioNames : results[s].returned
        /\ results["bullish"].execHistory = results["baseline"].execHistory
        /\ results["bearish"].execHistory = results["baseline"].execHistory
        /\ results["baseline"].scenario =
              [netFlowBias |-> 0, mevMultiplier |-> 1000000, queuePressure |-> 1000000,
               feeRegimeBias |-> "current"]
        /\ results["bullish"].scenario =
              [netFlowBias |-> 500000, mevMultiplier |-> 1300000, queuePressure |-> 1500000,
               feeRegimeBias |-> "elevated"]
        /\ results["bearish"].scenario =
              [netFlowBias |-> -500000, mevMultiplier |-> 700000, queuePressure |-> 500000,
               feeRegimeBias |-> "calm"]

\* C7: generateForecast returns the same points when the caller lists the
\* elements of history or of executionHistory in another order.
C7_OrderIndependent ==
    (/\ pc = "returned"
     /\ previous.made
     /\ executionHistory.defined
     /\ IsPermutation(previous.history, history)
     /\ IsPermutation(previous.executionHistory.value, executionHistory.value)) =>
        results[slot].points = previous.results[slot].points

\* C8: also when the latest state has no active validator or the total APR is
\* 0, the per-validator yield, the confidence of the detection and the four
\* percentages of every point are finite numbers.
C8_FiniteNumbers ==
    pc \in {"loop", "returned"} =>
        /\ IsFin(currentExecYield)
        /\ IsFin(regimeDetection.regimeConfidence)
        /\ \A i \in 1..Len(forecasts) :
              /\ IsFin(forecasts[i].drivers.consensusPct)
              /\ IsFin(forecasts[i].drivers.executionPct)
              /\ IsFin(forecasts[i].drivers.priorityFeesPct)
              /\ IsFin(forecasts[i].drivers.mevPct)

C10_EmptyExecutionDetection ==
    (executionHistory = Given(<<>>) /\ pc \in {"loop", "returned"}) =>
        regimeDetection =
            [currentRegime |-> "calm",
             regimeConfidence |-> Fin(500000),
             daysInRegime |-> 0,
             transitionProbability |->
                 [toCalm |-> 850000, toElevated |-> 120000, toHot |-> 30000]]

C10_DetectedWithoutValidators ==
    /\ executionHistory = Given(<<>>)
    /\ history = IdleHistory
    /\ latestState.activeValidators = 0
    /\ pc = "loop"
    /\ day >= 1
    /\ regimeDetection.currentRegime = "calm"

\* The sum of the three entries of an occupancy vector
OccupancySum(p) == p.calm + p.elevated + p.hot

\* C11: the three entries of every row of TRANSITION_MATRIX sum to 1, and the
\* occupancy vector of forecastExecutionYield, started one-hot at the base
\* regime, has its entries in [0, 1] and sums to 1 after each of the d passes of
\* its loop, for every start regime and every d >= 0 (every one of the nine
\* products of a pass is rounded down by less than 1/Scale, so that the sum
\* after d passes is within 9 * d / Scale of 1).  The regime of the point of
\* day d is the most likely one of that vector.
C11_OccupancySumsToOne ==
    /\ \A r \in FeeRegime :
          /\ TRANSITION_MATRIX[r].toCalm + TRANSITION_MATRIX[r].toElevated
                + TRANSITION_MATRIX[r].toHot = Scale
          /\ TRANSITION_MATRIX[r].toCalm \in 0..Scale
          /\ TRANSITION_MATRIX[r].toElevated \in 0..Scale
          /\ TRANSITION_MATRIX[r].toHot \in 0..Scale
    /\ pc = "loop" =>
          \A p \in {Occupancy(baseRegime, day)} :
              /\ p.calm \in 0..Scale
              /\ p.elevated \in 0..Scale
              /\ p.hot \in 0..Scale
              /\ OccupancySum(p) <= Scale
              /\ OccupancySum(p) >= Scale - 9 * day
              /\ day = 0 => p[baseRegime] = Scale
              /\ day >= 1 => forecasts[day].drivers.feeRegime = MostLikelyRegime(p)

C11_HotStartPropagated ==
    /\ pc = "loop"
    /\ baseRegime = "hot"
    /\ day = 2 * DaysPerMonth
    /\ Occupancy("hot", day).calm > Occupancy("hot", day).hot
    /\ forecasts[day].drivers.feeRegime = "calm"

\* q = floor(sqrt(n)) for the stake of `tenths` tenths of an ETH in Gwei
IsFloorSqrtOfStake(q, tenths) ==
    /\ BigLeq(BigMul(q, q), BigMul(tenths, GweiPerTenth))
    /\ ~BigLeq(BigMul(q + 1, q + 1), BigMul(tenths, GweiPerTenth))

\* C12 as stated: for all stakes 0 < S1 < S2, getTheoreticalAPR(S1) is greater
\* than getTheoreticalAPR(S2).
C12_StrictlyDecreasing ==
    (/\ probe.fn = "getTheoreticalAPR"
     /\ probe.pc \in {"apr", "returned"}
     /\ 0 < probe.stakeA
     /\ probe.stakeA < probe.stakeB) =>
        RatioGt(probe.aprA, probe.aprB)

\* C12 amended: the APR is computed with the floor of the square root of the
\* stake in Gwei, and for all stakes 0 < S1 < S2 getTheoreticalAPR(S1) is no less
\* than getTheoreticalAPR(S2): it is greater when the floors of the two roots
\* differ, as they do for stakes one ETH or more apart (up to TOTAL_ETH_SUPPLY),
\* and equal when the two roots have the same floor.
C12_NonIncreasing ==
    (/\ probe.fn = "getTheoreticalAPR"
     /\ probe.pc \in {"apr", "returned"}
     /\ 0 < probe.stakeA
     /\ probe.stakeA < probe.stakeB) =>
        /\ probe.aprA.num = AprNumerator
        /\ probe.aprB.num = AprNumerator
        /\ IsFloorSqrtOfStake(probe.aprA.den, probe.stakeA)
        /\ IsFloorSqrtOfStake(probe.aprB.den, probe.stakeB)
        /\ ~RatioGt(probe.aprB, probe.aprA)
        /\ probe.aprA.den < probe.aprB.den => RatioGt(probe.aprA, probe.aprB)
        /\ probe.aprA.den = probe.aprB.den => RatioEq(probe.aprA, probe.aprB)
        /\ probe.stakeB - probe.stakeA >= 10 => RatioGt(probe.aprA, probe.aprB)

C12_SameFloorSameAPR ==
    /\ probe.fn = "getTheoreticalAPR"
    /\ probe.pc = "apr"
    /\ probe.stakeA = 345000000
    /\ probe.stakeB = 345000001
    /\ probe.aprA.den = 185741756
    /\ RatioEq(probe.aprA, probe.aprB)

\* C13: getEquilibriumStakeForAPR(getTheoreticalAPR(S)) is S up to the floor of
\* the square root: with q the floor of the root of S in Gwei, the result is
\* q * q Gwei, which is at most S and less than 2 * q + 1 Gwei below it (in
\* tenths of an ETH, rounded down).  For a target <= 0 the result is
\* TOTAL_ETH_SUPPLY.
C13_EquilibriumInvertsAPR ==
    /\ (probe.fn = "getTheoreticalAPR" /\ probe.pc = "returned" /\ probe.stakeA > 0) =>
          /\ probe.targetAPR = probe.aprA
          /\ probe.equilibrium <= probe.stakeA
          /\ probe.stakeA - probe.equilibrium <= (2 * probe.aprA.den) \div GweiPerTenth + 1
          /\ probe.equilibrium = MulDiv(probe.aprA.den, probe.aprA.den, GweiPerTenth)
    /\ (probe.fn = "getEquilibriumStakeForAPR" /\ probe.pc = "returned"
          /\ probe.targetAPR.num <= 0) =>
          probe.equilibrium = 120000000 * 10
    /\ (probe.fn = "getEquilibriumStakeForAPR" /\ probe.pc = "returned"
          /\ probe.targetAPR = Ratio(1, 10)) =>
          probe.equilibrium = 442614274

C13_RoundTripOfLargeStake ==
    /\ probe.fn = "getTheoreticalAPR"
    /\ probe.pc = "returned"
    /\ probe.stakeA = 345000001
    /\ probe.equilibrium < probe.stakeA
    /\ probe.stakeA - probe.equilibrium <= 4

\* C14: getChurnLimit(v) = max(4, floor(v / 65536)); it is at least
\* MIN_PER_EPOCH_CHURN_LIMIT for every v >= 0, and getChurnLimit(v1) <=
\* getChurnLimit(v2) for all v1 <= v2.
C14_ChurnLimitMonotone ==
    (probe.fn = "getChurnLimit" /\ probe.pc = "returned") =>
        /\ IsFin(probe.churnA)
        /\ IsFin(probe.churnB)
        /\ probe.churnA.v >= 4
        /\ probe.churnA.v >= probe.validatorsA \div 65536
        /\ probe.churnA.v \in {4, probe.validatorsA \div 65536}
        /\ probe.churnB.v \in {4, probe.validatorsB \div 65536}
        /\ probe.churnB.v >= 4
        /\ probe.validatorsA <= probe.validatorsB => probe.churnA.v <= probe.churnB.v

C14_LimitAboveMinimum ==
    /\ probe.fn = "getChurnLimit"
    /\ probe.pc = "returned"
    /\ probe.validatorsA = 262144
    /\ probe.validatorsB = 1078125
    /\ probe.churnA.v = 4
    /\ probe.churnB.v = 16

\* The running stake and validator count at the start of day d >= 1 of the
\* running simulation: those of the latest observation on day 1, those that
\* the day before left on a later day
StakeAtStartOf(d) ==
    IF d = 1 THEN Fin(latestState.totalStakedETH) ELSE forecasts[d - 1].totalStakedETH

ValidatorsAtStartOf(d) ==
    IF d = 1 THEN Fin(latestState.activeValidators)
    ELSE XFloorDiv(forecasts[d - 1].totalStakedETH, 32)

\* C15: on every simulated day the applied growth is within the churn
\* throughput getChurnLimit(validators) * EPOCHS_PER_DAY * 32 of the running
\* validator count of that day, above when the growth is positive and below
\* otherwise (here for a positive validator count in the latest observation,
\* and with the larger of the throughputs of the count at the start of the day
\* and of the count that the day leaves).
C15_GrowthWithinRunningChurn ==
    (pc = "loop" /\ day >= 1 /\ latestState.activeValidators > 0) =>
        \A growth \in {forecasts[day].components.trendAdjustment},
           limit \in {XMax(getMaxDailyStakeChange(ValidatorsAtStartOf(day)),
                           getMaxDailyStakeChange(currentValidators))} :
            IF XGt(growth, Fin(0)) THEN XLe(growth, limit) ELSE XGe(growth, XNeg(limit))

\* C16: after every simulated day the running stake is at least 0, the running
\* validator count is floor(stake / 32), and the stake is max(0, the stake at
\* the start of the day + the clamped growth of the day).
C16_StakeAndValidatorsUpdated ==
    (pc = "loop" /\ day >= 1) =>
        /\ XGe(currentStake, Fin(0))
        /\ currentValidators = XFloorDiv(currentStake, EthPerValidator)
        /\ currentStake = XMax(Fin(0), XAdd(StakeAtStartOf(day),
                                            forecasts[day].components.trendAdjustment))

\* max(0, queue - getChurnLimit(validators) * EPOCHS_PER_DAY)
DecayedQueue(queue, validators) ==
    XMax(Fin(0), XSub(queue, XMul(getChurnLimit(validators), Fin(EPOCHS_PER_DAY), 1)))

\* C17: every simulated day replaces the entry queue and the exit queue by
\* max(0, queue - getChurnLimit(validators) * EPOCHS_PER_DAY), with the
\* validator count that the day has already updated; the queues that it leaves
\* are at least 0 and at most the queues that it found.
C17_QueuesDecay ==
    [][(pc = "loop" /\ day' = day + 1) =>
          /\ currentEntryQueue' = DecayedQueue(currentEntryQueue, currentValidators')
          /\ currentExitQueue' = DecayedQueue(currentExitQueue, currentValidators')
          /\ XGe(currentEntryQueue', Fin(0)) /\ XGe(currentExitQueue', Fin(0))
          /\ XLe(currentEntryQueue', currentEntryQueue)
          /\ XLe(currentExitQueue', currentExitQueue)]_vars

\* C18: the point pushed on a day has confidence.lower = max(0, stake - band)
\* and confidence.upper = stake + band, with band = 1.96 * sqrt(day) *
\* volatility * 32 and stake the totalStakedETH of the point, so that
\* 0 <= lower <= totalStakedETH <= upper; and the half-width upper - stake of
\* a day is at least that of the day before.
C18_ConfidenceBand ==
    (pc = "loop" /\ day >= 1) =>
        \A point \in {forecasts[day]},
           band \in {ConfidenceBand(day, [trend |-> trend])} :
            /\ point.confidence.lower = XMax(Fin(0), XSub(point.totalStakedETH, band))
            /\ point.confidence.upper = XAdd(point.totalStakedETH, band)
            /\ XLe(Fin(0), point.confidence.lower)
            /\ XLe(point.confidence.lower, point.totalStakedETH)
            /\ XLe(point.totalStakedETH, point.confidence.upper)
            /\ day >= 2 =>
                  XLe(XSub(forecasts[day - 1].confidence.upper,
                           forecasts[day - 1].totalStakedETH),
                      XSub(point.confidence.upper, point.totalStakedETH))

\* C19: the point pushed on a day has forecastAPR = drivers.totalAPR =
\* components.protocolBase + drivers.executionAPR, where protocolBase is
\* getTheoreticalAPR of the running stake at the start of the day, before the
\* growth of the day, and executionAPR is the annualizedAPR of
\* forecastExecutionYield (called with the values fixed before the loop, the
\* day and the validator count at the start of the day) times
\* scenario.mevMultiplier.  Equality is that of values: a NaN equals itself.
C19_APRComposition ==
    (pc = "loop" /\ day >= 1) =>
        \A point \in {forecasts[day]} :
            /\ point.forecastAPR = point.drivers.totalAPR
            /\ point.drivers.totalAPR =
                  XAdd(point.components.protocolBase, point.drivers.executionAPR)
            /\ point.components.protocolBase = getTheoreticalAPR(StakeAtStartOf(day))
            /\ point.drivers.executionAPR =
                  XMul(forecastExecutionYield(currentExecYield, baseRegime, day,
                                              ValidatorsAtStartOf(day)).annualizedAPR,
                       Fin(scenario.mevMultiplier), Scale)

\* A later day of a run whose scenario scales the execution APR, with a stake
\* that the days before have changed and finite APRs above 0
C19_ScaledExecutionOnLaterDay ==
    /\ pc = "loop" /\ day >= 2
    /\ scenario.mevMultiplier # Scale
    /\ StakeAtStartOf(day) # Fin(latestState.totalStakedETH)
    /\ IsFin(forecasts[day].forecastAPR)
    /\ XGt(forecasts[day].drivers.executionAPR, Fin(0))
    /\ XGt(forecasts[day].components.protocolBase, Fin(0))

\* C20: in every pass of the day loop of one generateForecast run the current
\* execution yield and the base regime are the ones computed before the loop
\* and stay as they are: the yield is that of the execution history in use
\* and of the latest observation, the base regime is the detected regime when
\* scenario.feeRegimeBias is 'current' and the forced regime otherwise, and
\* the point of the day carries the forecast of forecastExecutionYield for
\* these two values, the day and the running validator count.
C20_ExecutionInputsFixed ==
    [][(pc = "loop" /\ day' = day + 1) =>
          /\ currentExecYield' = currentExecYield
          /\ baseRegime' = baseRegime
          /\ currentExecYield = CurrentExecYield(execHistory, Fin(latestState.activeValidators))
          /\ baseRegime = IF scenario.feeRegimeBias = "current"
                          THEN detectRegime(execHistory,
                                            Fin(latestState.activeValidators)).currentRegime
                          ELSE scenario.feeRegimeBias
          /\ \A execForecast \in {forecastExecutionYield(currentExecYield, baseRegime, day',
                                                         currentValidators)} :
                /\ forecasts'[day'].drivers.feeRegime = execForecast.regime
                /\ forecasts'[day'].drivers.executionAPR =
                      XMul(execForecast.annualizedAPR, Fin(scenario.mevMultiplier), Scale)]_vars

\* A later day of a run whose scenario forces a base regime other than the
\* detected one
C20_ForcedRegimeOnLaterDay ==
    /\ pc = "loop" /\ day >= 2
    /\ scenario.feeRegimeBias # "current"
    /\ baseRegime = scenario.feeRegimeBias
    /\ baseRegime # regimeDetection.currentRegime
    /\ IsFin(currentExecYield)
    /\ IsFin(forecasts[day].drivers.executionAPR)

\* The regimes that come before a regime in the order calm, elevated, hot
RegimesBefore(regime) ==
    CASE regime = "calm" -> {}
      [] regime = "elevated" -> {"calm"}
      [] regime = "hot" -> {"calm", "elevated"}

\* C21: the regime that forecastExecutionYield returns is a most probable state
\* of the occupancy vector after daysAhead propagation steps from the one-hot
\* vector of currentRegime, and the first such state in the order calm,
\* elevated, hot; for daysAhead = 0 it is currentRegime.
C21_MostProbableRegime ==
    (probe.pc = "returned" /\ probe.fn = "forecastExecutionYield") =>
        \A p \in {OccupancyPath(probe.call.currentRegime,
                                probe.call.daysAhead)[probe.call.daysAhead + 1]} :
            /\ \A r \in FeeRegime : p[probe.result.regime] >= p[r]
            /\ \A r \in RegimesBefore(probe.result.regime) : p[r] < p[probe.result.regime]
            /\ probe.call.daysAhead = 0 => probe.result.regime = probe.call.currentRegime

\* A forecast some days ahead whose regime is neither the start regime nor calm
C21_RegimeMovedToElevated ==
    /\ probe.pc = "returned" /\ probe.fn = "forecastExecutionYield"
    /\ probe.call.daysAhead >= 1
    /\ probe.result.regime = "elevated"
    /\ probe.call.currentRegime = "hot"

\* The regime of the i-th most recent day of the history of a detectRegime
\* call, by the yield of that day alone
RegimeOfDay(call, i) ==
    classifyYield(PointYield(SortDesc(call.history)[i], Fin(call.activeValidators)))

\* C22: daysInRegime of detectRegime is the length of the longest prefix of the
\* history sorted most recent first whose days each classify to currentRegime
\* by their own yield: it is between 0 and the length of the history, every
\* day of the prefix matches, and the day after the prefix, if any, does not.
C22_DaysInRegimeIsPrefix ==
    (probe.pc = "returned" /\ probe.fn = "detectRegime") =>
        \A n \in {probe.result.daysInRegime} :
            /\ 0 <= n /\ n <= Len(probe.call.history)
            /\ \A i \in 1..n : RegimeOfDay(probe.call, i) = probe.result.currentRegime
            /\ n < Len(probe.call.history) =>
                  RegimeOfDay(probe.call, n + 1) # probe.result.currentRegime

\* A detection whose count stopped at a mismatching day that days of the
\* current regime follow
C22_MatchAfterMismatch ==
    /\ probe.pc = "returned" /\ probe.fn = "detectRegime"
    /\ probe.result.daysInRegime >= 1
    /\ \E i \in (probe.result.daysInRegime + 2)..Len(probe.call.history) :
          RegimeOfDay(probe.call, i) = probe.result.currentRegime

\* The regime of a yield (unit 1/Scale) by the half-open tiers: below 0.001,
\* from 0.001 to below 0.003, from 0.003; none for a yield in no tier (NaN)
TiersOf(y) ==
    {r \in FeeRegime :
        \/ r = "calm" /\ XLt(y, Fin(Scale \div 1000))
        \/ r = "elevated" /\ XGe(y, Fin(Scale \div 1000)) /\ XLt(y, Fin((3 * Scale) \div 1000))
        \/ r = "hot" /\ XGe(y, Fin((3 * Scale) \div 1000))}

\* The window-average yield of a detectRegime call on a non-empty history
AverageYieldOf(call) ==
    Mean(Slice(Yields(SortDesc(call.history), Fin(call.activeValidators)), RecentWindow))

\* C23: classifyYield returns one of the three regimes for every yield, and the
\* regime of the tier of the yield: calm below 0.001, elevated from 0.001 to
\* below 0.003, hot from 0.003; the currentRegime of detectRegime on a
\* non-empty history is the regime that classifyYield gives to the
\* window-average yield.
C23_HalfOpenTiers ==
    /\ (probe.pc = "returned" /\ probe.fn = "classifyYield") =>
          /\ probe.result \in FeeRegime
          /\ Cardinality(TiersOf(probe.call.yieldPerValidator)) <= 1
          /\ \A r \in TiersOf(probe.call.yieldPerValidator) : probe.result = r
    /\ (probe.pc = "returned" /\ probe.fn = "detectRegime" /\ Len(probe.call.history) > 0) =>
          /\ probe.result.currentRegime = classifyYield(AverageYieldOf(probe.call))
          /\ \A r \in TiersOf(AverageYieldOf(probe.call)) : probe.result.currentRegime = r

\* A yield of exactly 0.001 classified as elevated
C23_ThresholdIsElevated ==
    /\ probe.pc = "returned" /\ probe.fn = "classifyYield"
    /\ probe.call.yieldPerValidator = Fin(Scale \div 1000)
    /\ probe.result = "elevated"

\* The positions of the time-sorted history of a calculateStakingTrend call
\* that lie a positive number of days after the position before them
PositiveGaps(call) ==
    {i \in 2..Len(call.history) :
        SortAsc(call.history)[i].timestamp > SortAsc(call.history)[i - 1].timestamp}

\* The daily stake delta at a position of the time-sorted history
DeltaAt(call, i) ==
    XDiv(Fin(SortAsc(call.history)[i].totalStakedETH
             - SortAsc(call.history)[i - 1].totalStakedETH),
         Fin(SortAsc(call.history)[i].timestamp - SortAsc(call.history)[i - 1].timestamp), 1)

\* C24: calculateStakingTrend returns dailyGrowthRate 0, volatility 0 and r2 0
\* when the history has fewer than 2 points or no consecutive pair of the
\* time-sorted history has a positive day gap; only the pairs with a positive
\* gap contribute a delta (the growth rate lies between the smallest and the
\* largest of their deltas and is finite), and with exactly one such pair the
\* growth rate is its delta and the volatility is 0.
C24_TrendFallbacks ==
    (probe.pc = "returned" /\ probe.fn = "calculateStakingTrend") =>
        \A gaps \in {PositiveGaps(probe.call)} :
            /\ (Len(probe.call.history) < 2 \/ gaps = {}) =>
                  probe.result = [dailyGrowthRate |-> Fin(0), volatility |-> Fin(0),
                                  r2 |-> Fin(0)]
            /\ gaps # {} =>
                  /\ IsFin(probe.result.dailyGrowthRate)
                  /\ \E i \in gaps : XLe(DeltaAt(probe.call, i), probe.result.dailyGrowthRate)
                  /\ \E i \in gaps : XGe(DeltaAt(probe.call, i), probe.result.dailyGrowthRate)
            /\ Cardinality(gaps) = 1 =>
                  /\ \A i \in gaps : probe.result.dailyGrowthRate = DeltaAt(probe.call, i)
                  /\ probe.result.volatility = Fin(0)

\* A history of three points, two of them of the same time: one delta
C24_OneDeltaOfThreePoints ==
    /\ probe.pc = "returned" /\ probe.fn = "calculateStakingTrend"
    /\ Len(probe.call.history) = 3
    /\ Cardinality(PositiveGaps(probe.call)) = 1
    /\ probe.result.dailyGrowthRate = Fin(30)

\* C25: applyAPRFeedback returns baseGrowthRate * (1 + 0.1 * (currentAPR -
\* targetAPR)), with targetAPR = 4, and for every baseGrowthRate a currentAPR
\* above the target gives a result of at least baseGrowthRate, a currentAPR
\* below the target a result of at most baseGrowthRate.
C25_HigherAPRMoreStaking ==
    (probe.pc = "returned" /\ probe.fn = "applyAPRFeedback") =>
        /\ probe.result =
              Fin(SMulDiv(probe.call.baseGrowthRate.v,
                          10 * PctScale + (probe.call.currentAPR.v - 4 * PctScale),
                          10 * PctScale))
        /\ XGt(probe.call.currentAPR, Fin(4 * PctScale)) =>
              XGe(probe.result, probe.call.baseGrowthRate)
        /\ XLt(probe.call.currentAPR, Fin(4 * PctScale)) =>
              XLe(probe.result, probe.call.baseGrowthRate)

\* C26: two runs of generateForecast that differ only in scenario.queuePressure
\* and in the entryQueueLength and exitQueueLength of the points of the history
\* return the same points.
C26_QueuesDoNotMatter ==
    (/\ pc = "returned"
     /\ previous.made
     /\ history = WithQueues(previous.history, history[1])
     /\ executionHistory = previous.executionHistory) =>
        /\ results[slot].returned /\ previous.results[slot].returned
        /\ results[slot].points = previous.results[slot].points

\* A second run returned, after a first run with other queue lengths and
\* another queuePressure on the same data, whose stake shrinks day by day
C26_SecondRunWithOtherQueues ==
    /\ pc = "returned"
    /\ previous.made
    /\ history # previous.history
    /\ history = WithQueues(previous.history, history[1])
    /\ results[slot].scenario.queuePressure # previous.results[slot].scenario.queuePressure
    /\ Len(results[slot].points) >= 1
    /\ XLt(results[slot].points[1].totalStakedETH, Fin(latestState.totalStakedETH))
    /\ latestState.exitQueueLength > latestState.entryQueueLength

\* C27: on every simulated day d >= 4 the regime that forecastExecutionYield
\* returns, the most probable one d days ahead, is calm for each of the three
\* start regimes, and the point of the day carries calm; so every point that
\* generateForecast returns for a day from 30 on has drivers.feeRegime =
\* 'calm', in each scenario.
C27_CalmFromDayFour ==
    /\ (pc = "loop" /\ day >= 4) =>
          /\ \A r \in FeeRegime : MostLikelyRegime(Occupancy(r, day)) = "calm"
          /\ forecasts[day].drivers.feeRegime = "calm"
    /\ \A s \in ScenarioNames :
          results[s].returned =>
              \A i \in 1..Len(results[s].points) :
                  results[s].points[i].date >= latestState.timestamp + 30 =>
                      results[s].points[i].drivers.feeRegime = "calm"

\* A run from the base regime hot that has returned its monthly points, calm,
\* after a first day whose point was hot
C27_HotRunReturnedCalm ==
    /\ pc = "returned"
    /\ baseRegime = "hot"
    /\ results[slot].returned
    /\ Len(results[slot].points) >= 1
    /\ results[slot].points[1].date = latestState.timestamp + 30
    /\ results[slot].points[1].drivers.feeRegime = "calm"
    /\ forecasts[1].drivers.feeRegime = "hot"

\* C28: in one run of generateForecast components.queueConstraint of every
\* pushed point is getChurnLimit(activeValidators of the latest observation) *
\* EPOCHS_PER_DAY * 32, whatever the running validator count, and the stake
\* after a day differs from the stake before it by at most that constant.
C28_ConstantQueueConstraint ==
    (pc = "loop" /\ day >= 1) =>
        \A constraint \in {XMul(getChurnLimit(Fin(latestState.activeValidators)),
                                Fin(EPOCHS_PER_DAY * 32), 1)} :
            /\ forecasts[day].components.queueConstraint = constraint
            /\ XLe(XAbs(XSub(forecasts[day].totalStakedETH, StakeAtStartOf(day))), constraint)

\* C29: in a run whose trend has dailyGrowthRate 0 and whose scenario has
\* netFlowBias 0, every simulated day has growth (trendAdjustment) 0 and
\* pushes a point with the totalStakedETH and the stakeRatio of the latest
\* observation, whatever the APR of the day.
C29_FlatTrendKeepsStake ==
    (/\ pc = "loop" /\ day >= 1
     /\ trend.dailyGrowthRate = Fin(0)
     /\ scenario.netFlowBias = 0) =>
        /\ forecasts[day].components.trendAdjustment = Fin(0)
        /\ forecasts[day].totalStakedETH = Fin(latestState.totalStakedETH)
        /\ forecasts[day].stakeRatio = getStakeRatio(Fin(latestState.totalStakedETH))
        /\ currentStake = Fin(latestState.totalStakedETH)

\* ceil(max(initial entry queue, initial exit queue) / 900), the queues being
\* those of the latest observation
DaysToDrain ==
    ((IF latestState.entryQueueLength >= latestState.exitQueueLength
      THEN latestState.entryQueueLength ELSE latestState.exitQueueLength)
     + (MIN_PER_EPOCH_CHURN_LIMIT * EPOCHS_PER_DAY - 1))
    \div (MIN_PER_EPOCH_CHURN_LIMIT * EPOCHS_PER_DAY)

\* C30: the daily churn getChurnLimit(validators) * EPOCHS_PER_DAY of every
\* simulated day is at least 900; after at most ceil(max(initial entry queue,
\* initial exit queue) / 900) simulated days both running queues are 0; and a
\* queue that is 0 is 0 after the next day too.
C30_QueuesDrain ==
    [][(pc = "loop" /\ day' = day + 1) =>
          /\ XGe(XMul(getChurnLimit(currentValidators'), Fin(EPOCHS_PER_DAY), 1),
                 Fin(MIN_PER_EPOCH_CHURN_LIMIT * EPOCHS_PER_DAY))
          /\ day' >= DaysToDrain =>
                (currentEntryQueue' = Fin(0) /\ currentExitQueue' = Fin(0))
          /\ currentEntryQueue = Fin(0) => currentEntryQueue' = Fin(0)
          /\ currentExitQueue = Fin(0) => currentExitQueue' = Fin(0)]_vars
=============================================================================
